---- MODULE Spec2Model ----
(***************************************************************************)
(* Model of packages/fuels-programs/src/call_utils.rs (fuels-rs):          *)
(*   - the dependency resolution loop of TxDependencyExtension             *)
(*     (estimate_tx_dependencies / append_missing_dependencies),           *)
(*   - the input/output resolver get_transaction_inputs_outputs and its    *)
(*     helpers.                                                            *)
(*   - the aggregation of the required amounts                             *)
(*     (calculate_required_asset_amounts).                                 *)
(*   - the script-data layout and the call script                         *)
(*     (build_script_data_from_contract_calls, get_instructions,           *)
(*     compute_calls_instructions_len),                                    *)
(*   - the assembly of the transaction                                     *)
(*     (transaction_builder_from_contract_calls,                           *)
(*     build_tx_from_contract_calls).                                      *)
(* The specifications share the module: Spec drives the resolution loop,   *)
(* SpecIO applies the input/output resolver to bounded inputs, SpecAssets  *)
(* applies the resolver and the aggregation to calls that carry amounts,   *)
(* SpecScript lays out the script data and emits the script, SpecBuild     *)
(* runs build_tx_from_contract_calls step by step, SpecLive is the         *)
(* resolution loop with every awaited simulation returning, and SpecSum    *)
(* applies the two summing functions to amounts up to u64::MAX in builds   *)
(* with and without overflow checks.                                       *)
(***************************************************************************)
EXTENDS Integers, Sequences, FiniteSets, TLC

VARIABLES
    \* ---- resolution loop (estimate_tx_dependencies) ----
    pc,          \* "idle" | "loop" | "done": position in estimate_tx_dependencies
    max_attempts,\* Option<u64> argument of estimate_tx_dependencies
    attempts,    \* max_attempts.unwrap_or(DEFAULT_TX_DEP_ESTIMATION_ATTEMPTS)
    iter,        \* loop counter of `for _ in 0..attempts`
    self,        \* the caller: the dependency metadata grown by the builder methods
    sim_calls,   \* number of calls of simulate() made so far
    last,        \* outcome of the latest simulate() and the caller it ran on
    patched,     \* number of loop iterations that have patched the caller
    result,      \* value returned by estimate_tx_dependencies
    \* ---- input/output resolver (get_transaction_inputs_outputs) ----
    io_pc,       \* "ready" | "done" | "panicked"
    calls,       \* &[ContractCall]
    asset_inputs,\* Vec<Input> handed in by resource selection
    address,     \* &Bech32Address: the refund address
    base_asset_id,
    inputs,      \* returned Vec<Input>
    outputs,     \* returned Vec<Output>
    \* ---- required amounts (calculate_required_asset_amounts) ----
    req_pc,      \* "ready" | "done" | "panicked"
    required,    \* returned Vec<(AssetId, u64)>
    \* ---- script layout (build_script_data_from_contract_calls, get_instructions) ----
    script_pc,   \* "ready" | "sized" | "laid" | "failed" | "done"
    data_offset, \* base offset of the script data
    calls_instructions_len, \* result of compute_calls_instructions_len
    layout,      \* result of build_script_data_from_contract_calls
    script,      \* result of get_instructions
    \* ---- assembly (build_tx_from_contract_calls) ----
    build_pc,    \* "idle" | "script" | "amounts" | "select" | "witnesses" | "fee"
                 \* | "build" | "done" | "panicked": position in
                 \* build_tx_from_contract_calls
    trace,       \* the steps taken and the requests made to the account, in order
    selected,    \* number of entries of the required amounts already requested
    tb,          \* result of transaction_builder_from_contract_calls
    used_base_amount,
    tx,          \* result of build_tx_from_contract_calls
    \* ---- build profile ----
    overflow_checks \* whether integer overflow panics (debug) or wraps (release)

loop_vars == <<pc, max_attempts, attempts, iter, self, sim_calls, last, patched,
               result>>
io_vars == <<io_pc, calls, asset_inputs, address, base_asset_id, inputs, outputs>>
req_vars == <<req_pc, required>>
script_vars == <<script_pc, data_offset, calls_instructions_len, layout, script>>
build_vars == <<build_pc, trace, selected, tb, used_base_amount, tx>>
vars == <<pc, max_attempts, attempts, iter, self, sim_calls, last, patched, result,
          io_pc, calls, asset_inputs, address, base_asset_id, inputs, outputs,
          req_pc, required,
          script_pc, data_offset, calls_instructions_len, layout, script,
          build_pc, trace, selected, tb, used_base_amount, tx, overflow_checks>>

----------------------------------------------------------------------------
(* Bounds of the model *)

MaxReceipts == 2      \* longest receipt list a simulation returns
MaxOverride == 2      \* largest explicit max_attempts override
MaxPatchingReverts == 3  \* most recoverable reverts the node answers in one run
MaxCalls == 2         \* longest call list handed to the resolver
MaxExternal == 1      \* most external contracts of one call
MaxAssetInputs == 2   \* longest list of asset inputs
MaxCustomAssets == 2  \* most custom-asset entries of one call
MaxVariableOutputs == 2  \* most pre-declared variable outputs of one call

(* Program constants *)

DEFAULT_TX_DEP_ESTIMATION_ATTEMPTS == 10

FAILED_TRANSFER_TO_ADDRESS_SIGNAL == "FAILED_TRANSFER_TO_ADDRESS_SIGNAL"

ContractNotInInputs == "ContractNotInInputs"

----------------------------------------------------------------------------
(* Universe of values *)

\* Option<T>: <<>> is None, <<x>> is Some(x)
Some(x) == <<x>>

\* contract ids the simulated receipts can name
ContractIds == {1, 2}

\* SeqsUpTo(S, n): the sequences over S of length 0..n
SeqsUpTo(S, n) == UNION {[1..k -> S] : k \in 0..n}

\* Receipts: Revert { ra }, Panic { reason, contract_id }.  A Panic whose reason
\* is ContractNotInInputs always carries a contract id (the VM guarantees it).
Receipts ==
    [type : {"Revert"}, ra : {FAILED_TRANSFER_TO_ADDRESS_SIGNAL, "OTHER_SIGNAL"}]
    \cup
    [type : {"Panic"}, reason : {ContractNotInInputs}, contract_id : ContractIds]
    \cup
    [type : {"Panic"}, reason : {"OutOfGas"}, contract_id : {1}]

ReceiptLists == SeqsUpTo(Receipts, MaxReceipts)

\* Errors a simulation can return: Error::Transaction(Reason::Reverted { receipts })
\* or any other Error.
RevertedErrors == [kind : {"Reverted"}, receipts : ReceiptLists]

OtherErrors == [kind : {"Other"}, id : {"io", "validation"}]

OkOutcome == [kind |-> "Ok"]

SimOutcomes == {OkOutcome} \cup RevertedErrors \cup OtherErrors

MaxAttemptsChoices == {<<>>} \cup {Some(n) : n \in 0..MaxOverride}

----------------------------------------------------------------------------
(* Pure helpers of the resolution loop *)

is_missing_output_variables(receipts) ==
    \E k \in 1..Len(receipts) :
        /\ receipts[k].type = "Revert"
        /\ receipts[k].ra = FAILED_TRANSFER_TO_ADDRESS_SIGNAL

IsMissingContractPanic(r) ==
    r.type = "Panic" /\ r.reason = ContractNotInInputs

\* Iterator::find_map: index of the first receipt that is such a panic, 0 when
\* there is none
FirstMissingContractPanic(receipts) ==
    IF \E k \in DOMAIN receipts : IsMissingContractPanic(receipts[k])
    THEN CHOOSE k \in DOMAIN receipts :
            /\ IsMissingContractPanic(receipts[k])
            /\ \A j \in 1..(k - 1) : ~IsMissingContractPanic(receipts[j])
    ELSE 0

find_id_of_missing_contract(receipts) ==
    LET k == FirstMissingContractPanic(receipts)
    IN  IF k = 0 THEN <<>> ELSE Some(receipts[k].contract_id)

append_variable_outputs(s, num) ==
    [s EXCEPT !.variable_outputs = @ + num]

\* variant: the contract replaces the external contracts appended before
append_contract_Replaces(s, contract_id) ==
    [s EXCEPT !.external_contracts = <<contract_id>>]

append_contract(s, contract_id) ==
    [s EXCEPT !.external_contracts = Append(@, contract_id)]

\* variant: one variable output per failed-transfer receipt
append_missing_dependencies_PerReceipt(s, receipts) ==
    LET n == Cardinality({k \in DOMAIN receipts :
                            /\ receipts[k].type = "Revert"
                            /\ receipts[k].ra = FAILED_TRANSFER_TO_ADDRESS_SIGNAL})
        s1 == append_variable_outputs(s, n)
        id == find_id_of_missing_contract(receipts)
    IN  IF id # <<>> THEN append_contract(s1, id[1]) ELSE s1

\* variant: the missing contract is looked for only when no variable output
\* was appended
append_missing_dependencies_ElseIf(s, receipts) ==
    LET id == find_id_of_missing_contract(receipts)
    IN  IF is_missing_output_variables(receipts)
        THEN append_variable_outputs(s, 1)
        ELSE IF id # <<>> THEN append_contract(s, id[1]) ELSE s

append_missing_dependencies(s, receipts) ==
    LET s1 == IF is_missing_output_variables(receipts)
              THEN append_variable_outputs(s, 1)
              ELSE s
        id == find_id_of_missing_contract(receipts)
    IN  IF id # <<>> THEN append_contract(s1, id[1]) ELSE s1

----------------------------------------------------------------------------
(* Resolution loop *)

NoOutcome == [kind |-> "NotRun"]

NoResult == [tag |-> "None"]

ResultOk(s) == [tag |-> "Ok", caller |-> s]

ResultErr(e) == [tag |-> "Err", error |-> e]

NewCaller == [variable_outputs |-> 0, external_contracts |-> <<>>]

\* simulate(): one dry run of the current caller returning `outcome`
Simulated(outcome) ==
    /\ sim_calls' = sim_calls + 1
    /\ last' = [outcome |-> outcome, on |-> self]

InitLoop ==
    /\ pc = "idle"
    /\ max_attempts \in MaxAttemptsChoices
    /\ attempts = 0
    /\ iter = 0
    /\ self = NewCaller
    /\ sim_calls = 0
    /\ last = [outcome |-> NoOutcome, on |-> NewCaller]
    /\ patched = 0
    /\ result = NoResult

\* Option::unwrap_or
unwrap_or(opt, default) == IF opt = <<>> THEN default ELSE opt[1]

\* variant: the loop body runs at least once
EstimateTxDependencies_AtLeastOnce ==
    /\ pc = "idle"
    /\ attempts' = LET n == unwrap_or(max_attempts, DEFAULT_TX_DEP_ESTIMATION_ATTEMPTS)
                   IN  IF n = 0 THEN 1 ELSE n
    /\ pc' = "loop"
    /\ UNCHANGED <<max_attempts, iter, self, sim_calls, last, patched, result>>

\* estimate_tx_dependencies(self, max_attempts): entry
EstimateTxDependencies ==
    /\ pc = "idle"
    /\ attempts' = unwrap_or(max_attempts, DEFAULT_TX_DEP_ESTIMATION_ATTEMPTS)
    /\ pc' = "loop"
    /\ UNCHANGED <<max_attempts, iter, self, sim_calls, last, patched, result>>

\* variant: success returns the caller as it was before the latest patch
SimulateOk_StaleCaller ==
    /\ pc = "loop"
    /\ iter < attempts
    /\ Simulated(OkOutcome)
    /\ result' = ResultOk(last.on)
    /\ pc' = "done"
    /\ UNCHANGED <<max_attempts, attempts, iter, self, patched>>

\* loop body, arm `Ok(_) => return Ok(self)`
SimulateOk ==
    /\ pc = "loop"
    /\ iter < attempts
    /\ Simulated(OkOutcome)
    /\ result' = ResultOk(self)
    /\ pc' = "done"
    /\ UNCHANGED <<max_attempts, attempts, iter, self, patched>>

\* variant: a reverted simulation does not use up an attempt
SimulateReverted_NotCounted(err) ==
    /\ pc = "loop"
    /\ iter < attempts
    /\ Simulated(err)
    /\ self' = append_missing_dependencies(self, err.receipts)
    /\ patched' = IF self' # self THEN patched + 1 ELSE patched
    /\ UNCHANGED <<pc, max_attempts, attempts, iter, result>>

\* variant: the loop runs over 0..=attempts
SimulateReverted_OffByOne(err) ==
    /\ pc = "loop"
    /\ iter <= attempts
    /\ Simulated(err)
    /\ self' = append_missing_dependencies(self, err.receipts)
    /\ patched' = IF self' # self THEN patched + 1 ELSE patched
    /\ iter' = iter + 1
    /\ UNCHANGED <<pc, max_attempts, attempts, result>>

\* loop body, arm `Err(Error::Transaction(Reason::Reverted { ref receipts, .. }))`
SimulateReverted(err) ==
    /\ pc = "loop"
    /\ iter < attempts
    /\ Simulated(err)
    /\ self' = append_missing_dependencies(self, err.receipts)
    /\ patched' = IF self' # self THEN patched + 1 ELSE patched
    /\ iter' = iter + 1
    /\ UNCHANGED <<pc, max_attempts, attempts, result>>

\* variant: an error that is no revert is swallowed and the loop goes on
SimulateOtherError_Swallowed(err) ==
    /\ pc = "loop"
    /\ iter < attempts
    /\ Simulated(err)
    /\ iter' = iter + 1
    /\ UNCHANGED <<pc, max_attempts, attempts, self, patched, result>>

\* loop body, arm `Err(other_error) => return Err(other_error)`
SimulateOtherError(err) ==
    /\ pc = "loop"
    /\ iter < attempts
    /\ Simulated(err)
    /\ result' = ResultErr(err)
    /\ pc' = "done"
    /\ UNCHANGED <<max_attempts, attempts, iter, self, patched>>

\* variant: the final simulation is followed by one more patch
FinalSimulate_Patches(outcome) ==
    /\ pc = "loop"
    /\ iter = attempts
    /\ Simulated(outcome)
    /\ self' = IF outcome.kind = "Reverted"
               THEN append_missing_dependencies(self, outcome.receipts)
               ELSE self
    /\ result' = IF outcome.kind = "Ok" THEN ResultOk(self') ELSE ResultErr(outcome)
    /\ pc' = "done"
    /\ UNCHANGED <<max_attempts, attempts, iter, patched>>

\* after the loop: `self.simulate().await.map(|_| self)`
FinalSimulate(outcome) ==
    /\ pc = "loop"
    /\ iter = attempts
    /\ Simulated(outcome)
    /\ result' = IF outcome.kind = "Ok" THEN ResultOk(self) ELSE ResultErr(outcome)
    /\ pc' = "done"
    /\ UNCHANGED <<max_attempts, attempts, iter, self, patched>>

----------------------------------------------------------------------------
(* Input/output resolver: values *)

\* contract ids the calls can name
CallContractIds == {1, 2, 3}

AssetIds == {1, 2}

Addresses == {"w1", "w2"}

Zeroed == "zeroed"

\* a pre-declared Output::Variable of a call
VariableOutput(amount) ==
    [type |-> "Variable", to |-> "w1", amount |-> amount, asset_id |-> 1]

\* custom_assets of a call: (asset id, Option<recipient>) -> amount
NoCustomAssets == <<>>

OneCustomAsset == [k \in {<<1, Some("w2")>>} |-> 2]

\* calls with two targets and every list of external contracts (which can
\* name a third contract), and no pre-declared variable output or custom
\* transfer
PlainCalls ==
    [contract_id : {1, 2},
     external_contracts : SeqsUpTo(CallContractIds, MaxExternal),
     variable_outputs : {<<>>},
     custom_assets : {NoCustomAssets}]

\* the same calls, each with one variable output and one custom transfer
WithTransfers(cs) ==
    [k \in DOMAIN cs |->
        [cs[k] EXCEPT !.variable_outputs = <<VariableOutput(k)>>,
                      !.custom_assets = OneCustomAsset]]

SampleCalls ==
    WithTransfers(<<[contract_id |-> 1, external_contracts |-> <<2>>,
                     variable_outputs |-> <<>>, custom_assets |-> NoCustomAssets],
                    [contract_id |-> 2, external_contracts |-> <<>>,
                     variable_outputs |-> <<>>, custom_assets |-> NoCustomAssets]>>)

\* Input::ResourceSigned / Input::ResourcePredicate carry a resource whose
\* coin_asset_id() is Some(asset id) for a coin and None for a message;
\* Input::Contract is any other input.
AssetInputs ==
    [type : {"ResourceSigned", "ResourcePredicate"},
     coin_asset_id : {<<>>} \cup {Some(a) : a \in AssetIds}]
    \cup
    [type : {"Contract"}, contract_id : {3}]

SampleAssetInputs ==
    <<[type |-> "ResourceSigned", coin_asset_id |-> Some(2)],
      [type |-> "ResourcePredicate", coin_asset_id |-> <<>>]>>

----------------------------------------------------------------------------
(* Input/output resolver: pure functions *)

\* the orders in which a HashSet / HashMap holding the elements of S can be iterated
RECURSIVE Orders(_)
Orders(S) ==
    IF S = {} THEN {<<>>}
    ELSE UNION {{<<x>> \o rest : rest \in Orders(S \ {x})} : x \in S}

Range(s) == {s[k] : k \in DOMAIN s}

\* idx as u16
AsU16(idx) == idx % 65536

\* A u64 amount is the model integer with the same two's-complement bits:
\* x >= 0 stands for x and x < 0 for 2^64 + x, so that u64::MAX is -1 (2^64
\* lies beyond the integers the model computes with).  The sum of two model
\* integers then stands for the sum of the two u64 modulo 2^64.
U64_MAX == -1

\* a + b carries out of 64 bits
AddOverflows(a, b) == (a < 0 /\ b < 0) \/ ((a < 0 \/ b < 0) /\ a + b >= 0)

\* Iterator::sum::<u64>() over the amounts, amount by amount from 0: whether
\* one of the additions overflows
RECURSIVE SumOverflowsFrom(_, _)
SumOverflowsFrom(acc, entries) ==
    IF entries = <<>> THEN FALSE
    ELSE \/ AddOverflows(acc, Head(entries).amount)
         \/ SumOverflowsFrom(acc + Head(entries).amount, Tail(entries))

SumOverflows(entries) == SumOverflowsFrom(0, entries)

\* amount the entries of a sequence add up to: Iterator::sum::<u64>() where
\* it does not panic, which wraps modulo 2^64
RECURSIVE SumAmounts(_)
SumAmounts(entries) ==
    IF entries = <<>> THEN 0
    ELSE Head(entries).amount + SumAmounts(Tail(entries))

\* itertools group_by: the maximal runs of consecutive elements with equal key
\* (keys[k] is the key of s[k])
RECURSIVE GroupBy(_, _)
GroupBy(s, keys) ==
    IF s = <<>> THEN <<>>
    ELSE LET rest == GroupBy(Tail(s), Tail(keys))
         IN  IF Len(s) > 1 /\ keys[2] = keys[1]
             THEN <<(<<Head(s)>> \o rest[1])>> \o Tail(rest)
             ELSE <<(<<Head(s)>>)>> \o rest

\* variant: only the targets of the calls are collected
extract_unique_contract_ids_TargetsOnly(cs) ==
    {cs[k].contract_id : k \in DOMAIN cs}

extract_unique_contract_ids(cs) ==
    UNION {Range(cs[k].external_contracts) \cup {cs[k].contract_id} : k \in DOMAIN cs}

\* variant: a resource without a coin asset id is skipped
extract_unique_asset_ids_CoinsOnly(ainputs, base) ==
    {ainputs[k].coin_asset_id[1] :
        k \in {j \in DOMAIN ainputs :
                  /\ ainputs[j].type \in {"ResourceSigned", "ResourcePredicate"}
                  /\ ainputs[j].coin_asset_id # <<>>}}

extract_unique_asset_ids(ainputs, base) ==
    {IF ainputs[k].coin_asset_id = <<>> THEN base ELSE ainputs[k].coin_asset_id[1] :
        k \in {j \in DOMAIN ainputs :
                  ainputs[j].type \in {"ResourceSigned", "ResourcePredicate"}}}

\* contract_ids: the ids in the iteration order of the HashSet
generate_contract_inputs(contract_ids) ==
    [p \in 1..Len(contract_ids) |->
        [type |-> "Contract",
         utxo_id |-> [tx_id |-> Zeroed, output_index |-> AsU16(p - 1)],
         balance_root |-> Zeroed,
         state_root |-> Zeroed,
         tx_pointer |-> "default",
         contract_id |-> contract_ids[p]]]

generate_contract_outputs(num_of_contracts) ==
    [p \in 1..num_of_contracts |->
        [type |-> "Contract",
         input_index |-> AsU16(p - 1),
         balance_root |-> Zeroed,
         state_root |-> Zeroed]]

generate_asset_change_outputs_FirstOnly(wallet_address, asset_ids) ==
    [p \in 1..(IF asset_ids = <<>> THEN 0 ELSE 1) |->
        [type |-> "Change", to |-> wallet_address, amount |-> 0,
         asset_id |-> asset_ids[p]]]

\* asset_ids: the ids in the iteration order of the HashSet
generate_asset_change_outputs(wallet_address, asset_ids) ==
    [p \in 1..Len(asset_ids) |->
        [type |-> "Change", to |-> wallet_address, amount |-> 0,
         asset_id |-> asset_ids[p]]]

\* the entries of one call's custom_assets in the iteration order `order`
CustomEntries(call, order) ==
    [p \in 1..Len(order) |->
        [asset_id |-> order[p][1], to |-> order[p][2],
         amount |-> call.custom_assets[order[p]]]]

\* every sequence `calls.iter().flat_map(|call| &call.custom_assets)` can yield
RECURSIVE CustomEntryLists(_)
CustomEntryLists(cs) ==
    IF cs = <<>> THEN {<<>>}
    ELSE {CustomEntries(Head(cs), order) \o rest :
            order \in Orders(DOMAIN Head(cs).custom_assets),
            rest \in CustomEntryLists(Tail(cs))}

AssetIdAddress(entry) == <<entry.asset_id, entry.to>>

\* variant: a transfer without recipient is paid out as well
generate_custom_outputs_PaysNobody(entries) ==
    LET groups == GroupBy(entries, [k \in DOMAIN entries |-> AssetIdAddress(entries[k])])
    IN  [p \in 1..Len(groups) |->
            [type |-> "Coin", to |-> unwrap_or(Head(groups[p]).to, Zeroed),
             amount |-> SumAmounts(groups[p]),
             asset_id |-> Head(groups[p]).asset_id]]

\* with overflow checks, the sum of some group of generate_custom_outputs
\* panics (the sum is taken before the recipient is looked at)
generate_custom_outputs_Panics(entries) ==
    LET groups == GroupBy(entries, [k \in DOMAIN entries |-> AssetIdAddress(entries[k])])
    IN  \E p \in DOMAIN groups : SumOverflows(groups[p])

\* entries: the custom-asset entries of all calls in visiting order
generate_custom_outputs(entries) ==
    LET groups == GroupBy(entries, [k \in DOMAIN entries |-> AssetIdAddress(entries[k])])
        paid == SelectSeq(groups, LAMBDA g : Head(g).to # <<>>)
    IN  [p \in 1..Len(paid) |->
            [type |-> "Coin", to |-> Head(paid[p]).to[1],
             amount |-> SumAmounts(paid[p]),
             asset_id |-> Head(paid[p]).asset_id]]

\* variant: the variable outputs of the calls are collected last call first
RECURSIVE extract_variable_outputs_LastCallFirst(_)
extract_variable_outputs_LastCallFirst(cs) ==
    IF cs = <<>> THEN <<>>
    ELSE extract_variable_outputs_LastCallFirst(Tail(cs)) \o Head(cs).variable_outputs

RECURSIVE extract_variable_outputs(_)
extract_variable_outputs(cs) ==
    IF cs = <<>> THEN <<>>
    ELSE Head(cs).variable_outputs \o extract_variable_outputs(Tail(cs))

\* variant: the change outputs are emitted before the contract outputs
get_transaction_inputs_outputs_ChangeFirst(cs, ainputs, addr, base, order) ==
    LET num_of_contracts == Len(order.contract_ids)
    IN  [inputs |-> generate_contract_inputs(order.contract_ids) \o ainputs,
         outputs |-> generate_asset_change_outputs(addr, order.asset_ids)
                     \o generate_contract_outputs(num_of_contracts)
                     \o generate_custom_outputs(order.custom_assets)
                     \o extract_variable_outputs(cs)]

\* order: the iteration orders of the hash collections in this run
\* (order.contract_ids, order.asset_ids: the two HashSets; order.custom_assets:
\* the custom-asset entries of all calls as visited)
get_transaction_inputs_outputs(cs, ainputs, addr, base, order) ==
    LET num_of_contracts == Len(order.contract_ids)
    IN  [inputs |-> generate_contract_inputs(order.contract_ids) \o ainputs,
         outputs |-> generate_contract_outputs(num_of_contracts)
                     \o generate_asset_change_outputs(addr, order.asset_ids)
                     \o generate_custom_outputs(order.custom_assets)
                     \o extract_variable_outputs(cs)]

----------------------------------------------------------------------------
(* Input/output resolver: state machine *)

IdleIO ==
    /\ io_pc = "ready"
    /\ calls = <<>>
    /\ asset_inputs = <<>>
    /\ address = "w1"
    /\ base_asset_id = 1
    /\ inputs = <<>>
    /\ outputs = <<>>

\* The arguments of one run.  The contract part of the result depends on the
\* calls only and the change outputs on the asset inputs only, so either every
\* call list is tried with sample asset inputs, or every list of asset inputs,
\* refund address and base asset with sample calls.
InitIO ==
    /\ io_pc = "ready"
    /\ \/ /\ \E cs \in SeqsUpTo(PlainCalls, MaxCalls) : calls \in {cs, WithTransfers(cs)}
          /\ asset_inputs = SampleAssetInputs
          /\ address = "w1"
          /\ base_asset_id = 1
       \/ /\ calls \in {<<>>, SampleCalls}
          /\ asset_inputs \in SeqsUpTo(AssetInputs, MaxAssetInputs)
          /\ address \in Addresses
          /\ base_asset_id \in AssetIds
    /\ inputs = <<>>
    /\ outputs = <<>>

GetTransactionInputsOutputs ==
    /\ io_pc = "ready"
    /\ \E contract_order \in Orders(extract_unique_contract_ids(calls)),
          asset_order \in Orders(extract_unique_asset_ids(asset_inputs, base_asset_id)),
          custom_entries \in CustomEntryLists(calls) :
          LET order == [contract_ids |-> contract_order,
                        asset_ids |-> asset_order,
                        custom_assets |-> custom_entries]
              r == get_transaction_inputs_outputs(calls, asset_inputs, address,
                                                  base_asset_id, order)
          IN  IF overflow_checks /\ generate_custom_outputs_Panics(custom_entries)
              THEN /\ io_pc' = "panicked"
                   /\ UNCHANGED <<inputs, outputs>>
              ELSE /\ inputs' = r.inputs
                   /\ outputs' = r.outputs
                   /\ io_pc' = "done"
    /\ UNCHANGED <<calls, asset_inputs, address, base_asset_id>>

----------------------------------------------------------------------------
(* Required amounts: values *)

\* CallParameters::default()
DefaultCallParameters == [amount |-> 0, asset_id |-> <<>>, gas_forwarded |-> <<>>]

\* keys of custom_assets: (asset id, Option<recipient>)
CustomAssetKeys ==
    {<<1, Some("w1")>>, <<1, Some("w2")>>, <<2, Some("w1")>>, <<1, <<>>>>}

\* the key sets of the custom_assets maps of at most MaxCustomAssets entries
CustomAssetKeySets ==
    {keys \in SUBSET CustomAssetKeys : Cardinality(keys) <= MaxCustomAssets}

\* a call that transfers `amount` under each of `keys`
TransferringCall(keys, amount) ==
    [contract_id |-> 1,
     external_contracts |-> <<>>,
     variable_outputs |-> <<>>,
     custom_assets |-> [key \in keys |-> amount],
     call_parameters |-> DefaultCallParameters]

\* call lists that differ in their custom transfers; the k-th call of a list
\* transfers the amount k under each of its keys
TransferringCallLists ==
    {[k \in DOMAIN keys |-> TransferringCall(keys[k], k)] :
        keys \in SeqsUpTo(CustomAssetKeySets, MaxCalls)}

\* calls that differ in the amount and asset they forward
PayingCalls ==
    [contract_id : {1},
     external_contracts : {<<>>},
     variable_outputs : {<<>>},
     custom_assets : {NoCustomAssets, OneCustomAsset},
     call_parameters : [amount : {0, 1, 2},
                        asset_id : {<<>>} \cup {Some(a) : a \in AssetIds},
                        gas_forwarded : {<<>>}]]

\* calls that differ in their pre-declared variable outputs
DeclaringCalls ==
    [contract_id : {1},
     external_contracts : {<<>>},
     variable_outputs : SeqsUpTo({VariableOutput(1), VariableOutput(2)},
                                 MaxVariableOutputs),
     custom_assets : {OneCustomAsset},
     call_parameters : {DefaultCallParameters}]

----------------------------------------------------------------------------
(* Required amounts: pure functions *)

\* itertools sorted_by_key(|(asset_id, _)| *asset_id): a stable sort
RECURSIVE sorted_by_key(_)
sorted_by_key(s) ==
    IF s = <<>> THEN <<>>
    ELSE LET rest == sorted_by_key(Tail(s))
             lower == SelectSeq(rest, LAMBDA e : e.asset_id < Head(s).asset_id)
             upper == SelectSeq(rest, LAMBDA e : e.asset_id >= Head(s).asset_id)
         IN  lower \o <<Head(s)>> \o upper

\* (asset id, total) of every run of a grouped sequence
GroupTotals(groups) ==
    [p \in 1..Len(groups) |->
        [asset_id |-> Head(groups[p]).asset_id, amount |-> SumAmounts(groups[p])]]

\* variant: the amounts are grouped as they come, without sorting
sum_up_amounts_for_each_asset_id_Unsorted(amounts) ==
    GroupTotals(GroupBy(amounts, [k \in DOMAIN amounts |-> amounts[k].asset_id]))

sum_up_amounts_for_each_asset_id(amounts) ==
    LET sorted == sorted_by_key(amounts)
    IN  GroupTotals(GroupBy(sorted, [k \in DOMAIN sorted |-> sorted[k].asset_id]))

\* (asset_id().unwrap_or(base_asset_id), amount()) of every call
call_param_assets(cs, base) ==
    [k \in DOMAIN cs |->
        [asset_id |-> unwrap_or(cs[k].call_parameters.asset_id, base),
         amount |-> cs[k].call_parameters.amount]]

\* variant: the custom transfers are left out of the required amounts
calculate_required_asset_amounts_CallsOnly(cs, base, custom_entries) ==
    sum_up_amounts_for_each_asset_id(call_param_assets(cs, base))

\* with overflow checks, the sum of some group of custom transfers or of some
\* group of sum_up_amounts_for_each_asset_id panics
calculate_required_asset_amounts_Panics(cs, base, custom_entries) ==
    LET custom_groups == GroupBy(custom_entries,
                                 [k \in DOMAIN custom_entries |->
                                     custom_entries[k].asset_id])
    IN  \/ \E p \in DOMAIN custom_groups : SumOverflows(custom_groups[p])
        \/ LET sorted == sorted_by_key(call_param_assets(cs, base)
                                           \o GroupTotals(custom_groups))
               groups == GroupBy(sorted, [k \in DOMAIN sorted |-> sorted[k].asset_id])
           IN  \E p \in DOMAIN groups : SumOverflows(groups[p])

\* custom_entries: the custom-asset entries of all calls as visited by
\* `calls.iter().flat_map(|call| call.custom_assets.iter().collect::<Vec<_>>())`
calculate_required_asset_amounts(cs, base, custom_entries) ==
    LET custom_assets ==
            GroupTotals(GroupBy(custom_entries,
                                [k \in DOMAIN custom_entries |->
                                    custom_entries[k].asset_id]))
        merged_assets == call_param_assets(cs, base) \o custom_assets
    IN  sum_up_amounts_for_each_asset_id(merged_assets)

----------------------------------------------------------------------------
(* Required amounts: state machine *)

IdleReq ==
    /\ req_pc = "ready"
    /\ required = <<>>

\* The arguments of the two functions: call lists that differ in their
\* custom transfers, in the amounts they forward, or in their pre-declared
\* variable outputs, and one message resource as the asset inputs handed to
\* get_transaction_inputs_outputs.
InitAssets ==
    /\ io_pc = "ready"
    /\ \/ /\ calls \in TransferringCallLists
          /\ base_asset_id = 1
       \/ /\ calls \in SeqsUpTo(PayingCalls, MaxCalls)
          /\ base_asset_id \in AssetIds
       \/ /\ calls \in SeqsUpTo(DeclaringCalls, MaxCalls)
          /\ base_asset_id = 1
    /\ asset_inputs = <<[type |-> "ResourceSigned", coin_asset_id |-> <<>>]>>
    /\ address = "w1"
    /\ inputs = <<>>
    /\ outputs = <<>>
    /\ IdleReq

CalculateRequiredAssetAmounts ==
    /\ req_pc = "ready"
    /\ \E custom_entries \in CustomEntryLists(calls) :
          IF /\ overflow_checks
             /\ calculate_required_asset_amounts_Panics(calls, base_asset_id,
                                                        custom_entries)
          THEN /\ req_pc' = "panicked"
               /\ UNCHANGED required
          ELSE /\ required' = calculate_required_asset_amounts(calls, base_asset_id,
                                                               custom_entries)
               /\ req_pc' = "done"

----------------------------------------------------------------------------
(* Script layout: values *)

WORD_SIZE == 8

\* AssetId::LEN
AssetIdLen == 32

\* ContractId::LEN
ContractIdLen == 32

\* Instruction::SIZE
InstructionSize == 4

\* Result<T>
Ok(value) == [tag |-> "Ok", value |-> value]

Err(error) == [tag |-> "Err", error |-> error]

\* UnresolvedBytes: a sequence of items, a literal byte or a pointer to the
\* position `to` of the resolved bytes
DataByte(b) == [kind |-> "byte", value |-> b]

Pointer(to) == [kind |-> "pointer", to |-> to]

\* the encoded_args of a call: Ok(UnresolvedBytes::default()), arguments
\* without and with a pointer, or the error of a failed encoding
EncodedArgs ==
    {Ok(<<>>),
     Ok(<<DataByte(9), DataByte(8), DataByte(7)>>),
     Ok(<<Pointer(8), DataByte(6)>>),
     Err("InvalidData")}

\* the encoded_selector of a call: [0; 8] and a shorter one
EncodedSelectors == {[i \in 1..8 |-> 0], <<5, 4>>}

\* calls that differ in selector, arguments and forwarded gas
EncodedCalls ==
    [contract_id : {1},
     encoded_args : EncodedArgs,
     encoded_selector : EncodedSelectors,
     call_parameters : [amount : {0}, asset_id : {<<>>},
                        gas_forwarded : {<<>>, Some(500)}],
     output_param : {"Unit"}]

\* calls that differ in target, call parameters and output type
ParameterisedCalls ==
    [contract_id : {1, 2},
     encoded_args : {Ok(<<>>)},
     encoded_selector : {[i \in 1..8 |-> 0]},
     call_parameters : {DefaultCallParameters,
                        [amount |-> 7, asset_id |-> Some(2), gas_forwarded |-> <<>>],
                        [amount |-> 0, asset_id |-> <<>>, gas_forwarded |-> Some(0)],
                        [amount |-> 7, asset_id |-> Some(2),
                         gas_forwarded |-> Some(500)]},
     output_param : {"Unit", "Vector"}]

\* base offsets the offset calculator can supply
DataOffsets == {0, 10368}

----------------------------------------------------------------------------
(* Script layout: pure functions *)

\* n >> (8 * k)
RECURSIVE ShiftRightBytes(_, _)
ShiftRightBytes(n, k) == IF k = 0 THEN n ELSE ShiftRightBytes(n \div 256, k - 1)

\* u64::to_be_bytes
to_be_bytes(n) == [i \in 1..WORD_SIZE |-> ShiftRightBytes(n, WORD_SIZE - i) % 256]

\* the bytes of the asset id [id; 32]
AssetIdBytes(asset_id) == [i \in 1..AssetIdLen |-> asset_id]

\* the hash of the contract id [id; 32]
ContractIdHash(contract_id) == [i \in 1..ContractIdLen |-> contract_id]

\* UnresolvedBytes::resolve: literal bytes are copied, a pointer becomes the
\* absolute address start_addr + to
RECURSIVE resolve(_, _)
resolve(ub, start_addr) ==
    IF ub = <<>> THEN <<>>
    ELSE (IF Head(ub).kind = "byte" THEN <<Head(ub).value>>
          ELSE to_be_bytes(start_addr + Head(ub).to))
         \o resolve(Tail(ub), start_addr)

\* variant: the forwarded gas is not written
CallSegment_GasNotWritten(call, segment_offset, base) ==
    LET amount_offset == segment_offset
        asset_id_offset == amount_offset + WORD_SIZE
        call_data_offset == asset_id_offset + AssetIdLen
        encoded_selector_offset == call_data_offset + ContractIdLen + 2 * WORD_SIZE
        encoded_args_offset == encoded_selector_offset + Len(call.encoded_selector)
        asset_id == unwrap_or(call.call_parameters.asset_id, base)
    IN  IF call.encoded_args.tag = "Err"
        THEN Err([kind |-> "Codec", source |-> call.encoded_args.error])
        ELSE LET encoded_args == resolve(call.encoded_args.value, encoded_args_offset)
                 gas_forwarded == call.call_parameters.gas_forwarded
             IN  Ok([bytes |-> to_be_bytes(call.call_parameters.amount)
                               \o AssetIdBytes(asset_id)
                               \o ContractIdHash(call.contract_id)
                               \o to_be_bytes(encoded_selector_offset)
                               \o to_be_bytes(encoded_args_offset)
                               \o call.encoded_selector
                               \o encoded_args,
                     offsets |-> [call_data_offset |-> call_data_offset,
                                  amount_offset |-> amount_offset,
                                  asset_id_offset |-> asset_id_offset,
                                  gas_forwarded_offset |->
                                      IF gas_forwarded = <<>> THEN <<>>
                                      ELSE Some(encoded_args_offset
                                                + Len(encoded_args))]])

\* variant: the gas offset is the offset of the arguments
CallSegment_GasAtArgs(call, segment_offset, base) ==
    LET amount_offset == segment_offset
        asset_id_offset == amount_offset + WORD_SIZE
        call_data_offset == asset_id_offset + AssetIdLen
        encoded_selector_offset == call_data_offset + ContractIdLen + 2 * WORD_SIZE
        encoded_args_offset == encoded_selector_offset + Len(call.encoded_selector)
        asset_id == unwrap_or(call.call_parameters.asset_id, base)
    IN  IF call.encoded_args.tag = "Err"
        THEN Err([kind |-> "Codec", source |-> call.encoded_args.error])
        ELSE LET encoded_args == resolve(call.encoded_args.value, encoded_args_offset)
                 gas_forwarded == call.call_parameters.gas_forwarded
             IN  Ok([bytes |-> to_be_bytes(call.call_parameters.amount)
                               \o AssetIdBytes(asset_id)
                               \o ContractIdHash(call.contract_id)
                               \o to_be_bytes(encoded_selector_offset)
                               \o to_be_bytes(encoded_args_offset)
                               \o call.encoded_selector
                               \o encoded_args
                               \o (IF gas_forwarded = <<>> THEN <<>>
                                   ELSE to_be_bytes(gas_forwarded[1])),
                     offsets |-> [call_data_offset |-> call_data_offset,
                                  amount_offset |-> amount_offset,
                                  asset_id_offset |-> asset_id_offset,
                                  gas_forwarded_offset |->
                                      IF gas_forwarded = <<>> THEN <<>>
                                      ELSE Some(encoded_args_offset)]])

\* variant: the arguments are resolved at the offset of the selector
CallSegment_ResolvedAtSelector(call, segment_offset, base) ==
    LET amount_offset == segment_offset
        asset_id_offset == amount_offset + WORD_SIZE
        call_data_offset == asset_id_offset + AssetIdLen
        encoded_selector_offset == call_data_offset + ContractIdLen + 2 * WORD_SIZE
        encoded_args_offset == encoded_selector_offset + Len(call.encoded_selector)
        asset_id == unwrap_or(call.call_parameters.asset_id, base)
    IN  IF call.encoded_args.tag = "Err"
        THEN Err([kind |-> "Codec", source |-> call.encoded_args.error])
        ELSE LET encoded_args == resolve(call.encoded_args.value,
                                         encoded_selector_offset)
                 gas_forwarded == call.call_parameters.gas_forwarded
             IN  Ok([bytes |-> to_be_bytes(call.call_parameters.amount)
                               \o AssetIdBytes(asset_id)
                               \o ContractIdHash(call.contract_id)
                               \o to_be_bytes(encoded_selector_offset)
                               \o to_be_bytes(encoded_args_offset)
                               \o call.encoded_selector
                               \o encoded_args
                               \o (IF gas_forwarded = <<>> THEN <<>>
                                   ELSE to_be_bytes(gas_forwarded[1])),
                     offsets |-> [call_data_offset |-> call_data_offset,
                                  amount_offset |-> amount_offset,
                                  asset_id_offset |-> asset_id_offset,
                                  gas_forwarded_offset |->
                                      IF gas_forwarded = <<>> THEN <<>>
                                      ELSE Some(encoded_args_offset
                                                + Len(encoded_args))]])

\* body of the loop of build_script_data_from_contract_calls: the bytes one
\* call adds to the script data and its CallOpcodeParamsOffset
CallSegment(call, segment_offset, base) ==
    LET amount_offset == segment_offset
        asset_id_offset == amount_offset + WORD_SIZE
        call_data_offset == asset_id_offset + AssetIdLen
        encoded_selector_offset == call_data_offset + ContractIdLen + 2 * WORD_SIZE
        encoded_args_offset == encoded_selector_offset + Len(call.encoded_selector)
        asset_id == unwrap_or(call.call_parameters.asset_id, base)
    IN  IF call.encoded_args.tag = "Err"
        THEN Err([kind |-> "Codec", source |-> call.encoded_args.error])
        ELSE LET encoded_args == resolve(call.encoded_args.value, encoded_args_offset)
                 gas_forwarded == call.call_parameters.gas_forwarded
             IN  Ok([bytes |-> to_be_bytes(call.call_parameters.amount)
                               \o AssetIdBytes(asset_id)
                               \o ContractIdHash(call.contract_id)
                               \o to_be_bytes(encoded_selector_offset)
                               \o to_be_bytes(encoded_args_offset)
                               \o call.encoded_selector
                               \o encoded_args
                               \o (IF gas_forwarded = <<>> THEN <<>>
                                   ELSE to_be_bytes(gas_forwarded[1])),
                     offsets |-> [call_data_offset |-> call_data_offset,
                                  amount_offset |-> amount_offset,
                                  asset_id_offset |-> asset_id_offset,
                                  gas_forwarded_offset |->
                                      IF gas_forwarded = <<>> THEN <<>>
                                      ELSE Some(encoded_args_offset
                                                + Len(encoded_args))]])

\* the loop `for call in calls`: acc holds script_data and param_offsets, and
\* the segment of the next call begins at data_offset + script_data.len()
RECURSIVE BuildSegments(_, _, _, _)
BuildSegments(cs, offset, base, acc) ==
    IF cs = <<>> THEN Ok(acc)
    ELSE LET segment_offset == offset + Len(acc.script_data)
             segment == CallSegment(Head(cs), segment_offset, base)
         IN  IF segment.tag = "Err" THEN segment
             ELSE BuildSegments(Tail(cs), offset, base,
                     [script_data |-> acc.script_data \o segment.value.bytes,
                      param_offsets |->
                          Append(acc.param_offsets, segment.value.offsets)])

build_script_data_from_contract_calls(cs, offset, base) ==
    BuildSegments(cs, offset, base, [script_data |-> <<>>, param_offsets |-> <<>>])

\* CallOpcodeParamsOffset::default()
DefaultCallOpcodeParamsOffset ==
    [call_data_offset |-> 0, amount_offset |-> 0, asset_id_offset |-> 0,
     gas_forwarded_offset |-> <<>>]

\* fuel_asm instructions: op::movi, op::lw, op::call, op::ret
op_movi(dst, val) == [op |-> "MOVI", ra |-> dst, imm |-> val]

op_lw(dst, addr, offset) == [op |-> "LW", ra |-> dst, rb |-> addr, imm |-> offset]

op_call(target, amount, asset, gas) ==
    [op |-> "CALL", ra |-> target, rb |-> amount, rc |-> asset, rd |-> gas]

op_ret(value) == [op |-> "RET", ra |-> value]

\* RegId::ONE, RegId::CGAS
RegId == [ONE |-> 1, CGAS |-> 10]

\* the opcode byte of an instruction
Opcode(name) ==
    CASE name = "MOVI" -> 114
      [] name = "LW" -> 93
      [] name = "CALL" -> 45
      [] name = "RET" -> 36

\* Instruction::to_bytes: the opcode byte and the operands packed big-endian
\* into the remaining 24 bits (registers 6 bits each, then the immediate)
InstructionToBytes(ins) ==
    LET operands ==
            CASE ins.op = "MOVI" -> ins.ra * 262144 + ins.imm
              [] ins.op = "LW" -> ins.ra * 262144 + ins.rb * 4096 + ins.imm
              [] ins.op = "CALL" -> ins.ra * 262144 + ins.rb * 4096
                                    + ins.rc * 64 + ins.rd
              [] ins.op = "RET" -> ins.ra * 262144
    IN  <<Opcode(ins.op)>>
        \o [i \in 1..(InstructionSize - 1) |->
               ShiftRightBytes(operands, InstructionSize - 1 - i) % 256]

\* instructions.into_iter().collect::<Vec<u8>>()
RECURSIVE CollectBytes(_)
CollectBytes(instructions) ==
    IF instructions = <<>> THEN <<>>
    ELSE InstructionToBytes(Head(instructions)) \o CollectBytes(Tail(instructions))

\* variant: the amount offset is loaded without being dereferenced
get_single_call_instructions_AmountNotLoaded(offsets, output_param_type) ==
    LET instructions == <<op_movi(16, offsets.call_data_offset),
                          op_movi(17, offsets.amount_offset),
                          op_movi(18, offsets.asset_id_offset)>>
    IN  Ok(CollectBytes(
            IF offsets.gas_forwarded_offset # <<>>
            THEN instructions
                 \o <<op_movi(19, offsets.gas_forwarded_offset[1]),
                      op_lw(19, 19, 0),
                      op_call(16, 17, 18, 19)>>
            ELSE Append(instructions, op_call(16, 17, 18, RegId.CGAS))))

\* variant: the gas offset is loaded without being dereferenced
get_single_call_instructions_GasNotLoaded(offsets, output_param_type) ==
    LET instructions == <<op_movi(16, offsets.call_data_offset),
                          op_movi(17, offsets.amount_offset),
                          op_lw(17, 17, 0),
                          op_movi(18, offsets.asset_id_offset)>>
    IN  Ok(CollectBytes(
            IF offsets.gas_forwarded_offset # <<>>
            THEN instructions
                 \o <<op_movi(19, offsets.gas_forwarded_offset[1]),
                      op_call(16, 17, 18, 19)>>
            ELSE Append(instructions, op_call(16, 17, 18, RegId.CGAS))))

\* the offsets of the model stay below 2^18, so that no try_into() and no
\* immediate is out of range
get_single_call_instructions(offsets, output_param_type) ==
    LET instructions == <<op_movi(16, offsets.call_data_offset),
                          op_movi(17, offsets.amount_offset),
                          op_lw(17, 17, 0),
                          op_movi(18, offsets.asset_id_offset)>>
    IN  Ok(CollectBytes(
            IF offsets.gas_forwarded_offset # <<>>
            THEN instructions
                 \o <<op_movi(19, offsets.gas_forwarded_offset[1]),
                      op_lw(19, 19, 0),
                      op_call(16, 17, 18, 19)>>
            ELSE Append(instructions, op_call(16, 17, 18, RegId.CGAS))))

\* process_results(|c| c.sum()) over the lengths of the calls' instructions
RECURSIVE compute_calls_instructions_len(_)
compute_calls_instructions_len(cs) ==
    IF cs = <<>> THEN Ok(0)
    ELSE LET c == Head(cs)
             call_opcode_params ==
                 IF c.call_parameters.gas_forwarded # <<>>
                 THEN [DefaultCallOpcodeParamsOffset
                          EXCEPT !.gas_forwarded_offset = Some(0)]
                 ELSE DefaultCallOpcodeParamsOffset
             instructions ==
                 get_single_call_instructions(call_opcode_params, c.output_param)
             rest == compute_calls_instructions_len(Tail(cs))
         IN  IF instructions.tag = "Err" THEN instructions
             ELSE IF rest.tag = "Err" THEN rest
             ELSE Ok(Len(instructions.value) + rest.value)

\* calls.iter().zip(&offsets) ... process_results(|iter| iter.flatten().collect())
RECURSIVE FlattenCallInstructions(_, _)
FlattenCallInstructions(cs, offsets) ==
    IF cs = <<>> \/ offsets = <<>> THEN Ok(<<>>)
    ELSE LET instructions ==
                 get_single_call_instructions(Head(offsets), Head(cs).output_param)
             rest == FlattenCallInstructions(Tail(cs), Tail(offsets))
         IN  IF instructions.tag = "Err" THEN instructions
             ELSE IF rest.tag = "Err" THEN rest
             ELSE Ok(instructions.value \o rest.value)

\* variant: every call's instructions are followed by a return
RECURSIVE get_instructions_ReturnPerCall(_, _)
get_instructions_ReturnPerCall(cs, offsets) ==
    IF cs = <<>> \/ offsets = <<>> THEN Ok(InstructionToBytes(op_ret(RegId.ONE)))
    ELSE LET instructions ==
                 get_single_call_instructions(Head(offsets), Head(cs).output_param)
             rest == get_instructions_ReturnPerCall(Tail(cs), Tail(offsets))
         IN  Ok(instructions.value
                \o (IF Len(cs) > 1 THEN InstructionToBytes(op_ret(RegId.ONE)) ELSE <<>>)
                \o rest.value)

get_instructions(cs, offsets) ==
    LET bytes == FlattenCallInstructions(cs, offsets)
    IN  IF bytes.tag = "Err" THEN bytes
        ELSE Ok(bytes.value \o InstructionToBytes(op_ret(RegId.ONE)))

----------------------------------------------------------------------------
(* Script layout: state machine *)

NoValue == [tag |-> "None"]

IdleScript ==
    /\ script_pc = "ready"
    /\ data_offset = 0
    /\ calls_instructions_len = NoValue
    /\ layout = NoValue
    /\ script = NoValue

\* The calls of one run: call lists that differ in selector, arguments and
\* forwarded gas, or in target, call parameters and output type.
InitScript ==
    /\ io_pc = "ready"
    /\ \/ calls \in SeqsUpTo(EncodedCalls, MaxCalls)
       \/ calls \in SeqsUpTo(ParameterisedCalls, MaxCalls)
    /\ base_asset_id = 1
    /\ asset_inputs = <<>>
    /\ address = "w1"
    /\ inputs = <<>>
    /\ outputs = <<>>
    /\ script_pc = "ready"
    /\ data_offset \in DataOffsets
    /\ calls_instructions_len = NoValue
    /\ layout = NoValue
    /\ script = NoValue

\* transaction_builder_from_contract_calls: compute_calls_instructions_len(calls)?
ComputeCallsInstructionsLen ==
    /\ script_pc = "ready"
    /\ calls_instructions_len' = compute_calls_instructions_len(calls)
    /\ script_pc' = "sized"
    /\ UNCHANGED <<data_offset, layout, script>>

\* build_script_data_from_contract_calls(calls, data_offset, base_asset_id)?
BuildScriptDataFromContractCalls ==
    /\ script_pc = "sized"
    /\ layout' = build_script_data_from_contract_calls(calls, data_offset,
                                                       base_asset_id)
    /\ script_pc' = IF layout'.tag = "Ok" THEN "laid" ELSE "failed"
    /\ UNCHANGED <<data_offset, calls_instructions_len, script>>

\* get_instructions(calls, call_param_offsets)?
GetInstructions ==
    /\ script_pc = "laid"
    /\ script' = get_instructions(calls, layout.value.param_offsets)
    /\ script_pc' = "done"
    /\ UNCHANGED <<data_offset, calls_instructions_len, layout>>

----------------------------------------------------------------------------
(* Assembly of the transaction: values *)

\* calls that differ in what they forward, in their custom transfers and in
\* whether their arguments could be encoded
BuilderCalls ==
    [contract_id : {1},
     external_contracts : {<<>>},
     variable_outputs : {<<>>},
     custom_assets : {NoCustomAssets, OneCustomAsset},
     call_parameters : {DefaultCallParameters,
                        [amount |-> 7, asset_id |-> Some(2), gas_forwarded |-> <<>>]},
     encoded_args : {Ok(<<>>), Err("InvalidData")},
     encoded_selector : {[i \in 1..8 |-> 0]},
     output_param : {"Unit"}]

\* what the account can answer a request with: an error, or, for a resource
\* selection, the spendable coins of the asset it found
AccountError == Err([kind |-> "Provider", source |-> "account"])

SelectedResources(asset_id) ==
    {<<[type |-> "ResourceSigned", coin_asset_id |-> Some(asset_id)]>>,
     <<[type |-> "ResourceSigned", coin_asset_id |-> Some(asset_id)],
       [type |-> "ResourcePredicate", coin_asset_id |-> Some(asset_id)]>>}

SelectionOutcomes(asset_id) ==
    {AccountError} \cup {Ok(resources) : resources \in SelectedResources(asset_id)}

AccountOutcomes == {AccountError, Ok(<<>>)}

\* what a successful account.adjust_for_fee(&mut tb, ..) does to the builder:
\* the inputs already there stay, in their order, and the account may add a
\* resource of the base asset after them to cover the fee (tests/predicates.rs,
\* predicate_adjust_fee_persists_message_w_data: one input before, two in the
\* built transaction, the first still the message); with it the account may
\* add the change output of the base asset when the builder has none
FeeCoins == {"None", "ResourceSigned", "ResourcePredicate"}

FeeAdjustment(coin, change, base, addr) ==
    [inputs |-> IF coin = "None" THEN <<>>
                ELSE <<[type |-> coin, coin_asset_id |-> Some(base)]>>,
     outputs |-> IF change THEN generate_asset_change_outputs(addr, <<base>>)
                 ELSE <<>>]

\* the account's answer: an error, or the adjustment it made
FeeOutcome(ok, coin, change, base, addr) ==
    IF ok THEN Ok(FeeAdjustment(coin, change, base, addr)) ELSE AccountError

\* the builder has a change output of the asset already
HasChangeOutput(builder, asset) ==
    \E p \in DOMAIN builder.outputs :
        builder.outputs[p].type = "Change" /\ builder.outputs[p].asset_id = asset

\* one step of the assembly, as the account and the helpers see it
Step(name) == [step |-> name]

\* the request get_asset_inputs_for_amount(asset_id, amount) and its answer
Request(asset_id, amount, outcome) ==
    [step |-> "get_asset_inputs_for_amount", asset_id |-> asset_id,
     amount |-> amount, outcome |-> outcome]

\* ScriptTransactionBuilder::default().with_script(..).with_script_data(..)
\*     .with_inputs(..).with_outputs(..); the account adds the witnesses and
\* the fee adjustment later
ScriptTransactionBuilder(script_bytes, script_data, ins, outs) ==
    [script |-> script_bytes, script_data |-> script_data,
     inputs |-> ins, outputs |-> outs,
     witnesses |-> 0, fee_adjusted_for |-> <<>>]

UsedBaseAmount_FirstEntry(required_asset_amounts, base) ==
    IF required_asset_amounts = <<>> THEN 0 ELSE required_asset_amounts[1].amount

\* required_asset_amounts.iter().find_map(|(asset_id, amount)|
\*     (asset_id == base_asset_id).then_some(*amount)).unwrap_or_default()
UsedBaseAmount(required_asset_amounts, base) ==
    LET found == {p \in DOMAIN required_asset_amounts :
                      required_asset_amounts[p].asset_id = base}
    IN  IF found = {} THEN 0
        ELSE required_asset_amounts[CHOOSE p \in found :
                                        \A q \in found : p <= q].amount

----------------------------------------------------------------------------
(* Assembly of the transaction: state machine *)

IdleBuild ==
    /\ build_pc = "idle"
    /\ trace = <<>>
    /\ selected = 0
    /\ tb = NoValue
    /\ used_base_amount = NoValue
    /\ tx = NoValue
    /\ overflow_checks = FALSE

\* The arguments of one run of build_tx_from_contract_calls; the provider is
\* available and the offset calculator has supplied the base offset.
InitBuild ==
    /\ InitLoop /\ max_attempts = <<>>
    /\ io_pc = "ready"
    /\ calls \in SeqsUpTo(BuilderCalls, MaxCalls)
    /\ base_asset_id \in AssetIds
    /\ asset_inputs = <<>>
    /\ address = "w1"
    /\ inputs = <<>>
    /\ outputs = <<>>
    /\ IdleReq
    /\ script_pc = "ready"
    /\ data_offset = 10368
    /\ calls_instructions_len = NoValue
    /\ layout = NoValue
    /\ script = NoValue
    /\ build_pc = "script"
    /\ trace = <<>>
    /\ selected = 0
    /\ tb = NoValue
    /\ used_base_amount = NoValue
    /\ tx = NoValue
    /\ overflow_checks = FALSE

\* let calls_instructions_len = compute_calls_instructions_len(calls)?;
SizeScript ==
    /\ build_pc = "script"
    /\ ComputeCallsInstructionsLen
    /\ trace' = Append(trace, Step("compute_calls_instructions_len"))
    /\ UNCHANGED <<build_pc, selected, tb, used_base_amount, tx>>
    /\ UNCHANGED <<loop_vars, io_vars, req_vars, overflow_checks>>

LayOutScriptData_ErrorIgnored ==
    /\ build_pc = "script"
    /\ BuildScriptDataFromContractCalls
    /\ trace' = Append(trace, Step("build_script_data_from_contract_calls"))
    /\ IF layout'.tag = "Ok"
       THEN UNCHANGED <<build_pc, tb, tx>>
       ELSE /\ tb' = Ok(ScriptTransactionBuilder(<<>>, <<>>, <<>>, <<>>))
            /\ tx' = tb'
            /\ build_pc' = "done"
    /\ UNCHANGED <<selected, used_base_amount>>
    /\ UNCHANGED <<loop_vars, io_vars, req_vars, overflow_checks>>

\* let (script_data, call_param_offsets) =
\*     build_script_data_from_contract_calls(calls, data_offset, base)?;
\* an error is the result of transaction_builder_from_contract_calls, and of
\* build_tx_from_contract_calls which called it with `?`
LayOutScriptData ==
    /\ build_pc = "script"
    /\ BuildScriptDataFromContractCalls
    /\ trace' = Append(trace, Step("build_script_data_from_contract_calls"))
    /\ IF layout'.tag = "Ok"
       THEN UNCHANGED <<build_pc, tb, tx>>
       ELSE /\ tb' = layout'
            /\ tx' = layout'
            /\ build_pc' = "done"
    /\ UNCHANGED <<selected, used_base_amount>>
    /\ UNCHANGED <<loop_vars, io_vars, req_vars, overflow_checks>>

\* let script = get_instructions(calls, call_param_offsets)?;
EmitScript ==
    /\ build_pc = "script"
    /\ GetInstructions
    /\ trace' = Append(trace, Step("get_instructions"))
    /\ IF script'.tag = "Ok"
       THEN build_pc' = "amounts" /\ UNCHANGED <<tb, tx>>
       ELSE tb' = script' /\ tx' = script' /\ build_pc' = "done"
    /\ UNCHANGED <<selected, used_base_amount>>
    /\ UNCHANGED <<loop_vars, io_vars, req_vars, overflow_checks>>

\* let required_asset_amounts = calculate_required_asset_amounts(calls, base);
AggregateAssets ==
    /\ build_pc = "amounts"
    /\ CalculateRequiredAssetAmounts
    /\ trace' = Append(trace, Step("calculate_required_asset_amounts"))
    /\ build_pc' = IF req_pc' = "panicked" THEN "panicked" ELSE "select"
    /\ UNCHANGED <<selected, tb, used_base_amount, tx>>
    /\ UNCHANGED <<loop_vars, io_vars, script_vars, overflow_checks>>

GetAssetInputsForAmount_GoesOn(outcome) ==
    /\ build_pc = "select"
    /\ selected < Len(required)
    /\ LET entry == required[selected + 1]
       IN  /\ outcome \in SelectionOutcomes(entry.asset_id)
           /\ trace' = Append(trace, Request(entry.asset_id, entry.amount, outcome))
    /\ selected' = selected + 1
    /\ asset_inputs' = IF outcome.tag = "Ok" THEN asset_inputs \o outcome.value
                       ELSE asset_inputs
    /\ UNCHANGED <<build_pc, tb, tx>>
    /\ UNCHANGED <<calls, address, base_asset_id, inputs, outputs, io_pc>>
    /\ UNCHANGED <<used_base_amount>>
    /\ UNCHANGED <<loop_vars, req_vars, script_vars, overflow_checks>>

\* for (asset_id, amount) in &required_asset_amounts {
\*     let resources = account.get_asset_inputs_for_amount(*asset_id, *amount).await?;
\*     asset_inputs.extend(resources);
\* }
\* one pass of the loop body
GetAssetInputsForAmount(outcome) ==
    /\ build_pc = "select"
    /\ selected < Len(required)
    /\ LET entry == required[selected + 1]
       IN  /\ outcome \in SelectionOutcomes(entry.asset_id)
           /\ trace' = Append(trace, Request(entry.asset_id, entry.amount, outcome))
    /\ selected' = selected + 1
    /\ IF outcome.tag = "Ok"
       THEN /\ asset_inputs' = asset_inputs \o outcome.value
            /\ UNCHANGED <<build_pc, tb, tx>>
       ELSE /\ tb' = outcome
            /\ tx' = outcome
            /\ build_pc' = "done"
            /\ UNCHANGED asset_inputs
    /\ UNCHANGED <<calls, address, base_asset_id, inputs, outputs, io_pc>>
    /\ UNCHANGED <<used_base_amount>>
    /\ UNCHANGED <<loop_vars, req_vars, script_vars, overflow_checks>>

\* let (inputs, outputs) = get_transaction_inputs_outputs(calls, asset_inputs,
\*     account.address(), base);
\* Ok(ScriptTransactionBuilder::default() .. .with_inputs(inputs).with_outputs(outputs))
ResolveAndAssemble ==
    /\ build_pc = "select"
    /\ selected = Len(required)
    /\ GetTransactionInputsOutputs
    /\ trace' = Append(trace, Step("get_transaction_inputs_outputs"))
    /\ IF io_pc' = "panicked"
       THEN build_pc' = "panicked" /\ UNCHANGED tb
       ELSE /\ tb' = Ok(ScriptTransactionBuilder(script.value,
                                                 layout.value.script_data,
                                                 inputs', outputs'))
            /\ build_pc' = "witnesses"
    /\ UNCHANGED <<selected, used_base_amount, tx>>
    /\ UNCHANGED <<loop_vars, req_vars, script_vars, overflow_checks>>

\* let required_asset_amounts = calculate_required_asset_amounts(calls, base);
\* let used_base_amount = ..;
\* account.add_witnesses(&mut tb)?;
AddWitnesses(outcome) ==
    /\ build_pc = "witnesses"
    /\ \E custom_entries \in CustomEntryLists(calls) :
          used_base_amount' =
              UsedBaseAmount(calculate_required_asset_amounts(calls, base_asset_id,
                                                              custom_entries),
                             base_asset_id)
    /\ trace' = Append(trace, Step("add_witnesses"))
    /\ IF outcome.tag = "Ok"
       THEN /\ tb' = Ok([tb.value EXCEPT !.witnesses = @ + 1])
            /\ build_pc' = "fee"
            /\ UNCHANGED tx
       ELSE /\ tx' = outcome
            /\ build_pc' = "done"
            /\ UNCHANGED tb
    /\ UNCHANGED selected
    /\ UNCHANGED <<loop_vars, io_vars, req_vars, script_vars, overflow_checks>>

\* account.adjust_for_fee(&mut tb, used_base_amount).await?;
\* the account changes the inputs and outputs of the builder it is handed
AdjustForFee(outcome) ==
    /\ build_pc = "fee"
    /\ trace' = Append(trace, [step |-> "adjust_for_fee", amount |-> used_base_amount])
    /\ IF outcome.tag = "Ok"
       THEN /\ Len(outcome.value.outputs) > 0 => ~HasChangeOutput(tb.value, base_asset_id)
            /\ tb' = Ok([tb.value EXCEPT !.inputs = @ \o outcome.value.inputs,
                                         !.outputs = @ \o outcome.value.outputs,
                                         !.fee_adjusted_for = Some(used_base_amount)])
            /\ build_pc' = "build"
            /\ UNCHANGED tx
       ELSE /\ tx' = outcome
            /\ build_pc' = "done"
            /\ UNCHANGED tb
    /\ UNCHANGED <<selected, used_base_amount>>
    /\ UNCHANGED <<loop_vars, io_vars, req_vars, script_vars, overflow_checks>>

\* tb.build(account.try_provider()?).await
Build(outcome) ==
    /\ build_pc = "build"
    /\ trace' = Append(trace, Step("build"))
    /\ tx' = IF outcome.tag = "Ok" THEN Ok(tb.value) ELSE outcome
    /\ build_pc' = "done"
    /\ UNCHANGED <<selected, tb, used_base_amount>>
    /\ UNCHANGED <<loop_vars, io_vars, req_vars, script_vars, overflow_checks>>

----------------------------------------------------------------------------
(* Specification of the resolution loop *)

Init == InitLoop /\ IdleIO /\ IdleReq /\ IdleScript /\ IdleBuild

\* the simulated node: it answers an in-loop simulation with a recoverable
\* revert at most MaxPatchingReverts times in one run
NodeAnswers(err) ==
    (is_missing_output_variables(err.receipts)
        \/ find_id_of_missing_contract(err.receipts) # <<>>)
    => patched < MaxPatchingReverts

Next ==
    \/ EstimateTxDependencies /\ UNCHANGED <<io_vars, req_vars, script_vars, build_vars, overflow_checks>>
    \/ SimulateOk /\ UNCHANGED <<io_vars, req_vars, script_vars, build_vars, overflow_checks>>
    \/ \E e \in RevertedErrors :
           NodeAnswers(e) /\ SimulateReverted(e) /\ UNCHANGED <<io_vars, req_vars, script_vars, build_vars, overflow_checks>>
    \/ \E e \in OtherErrors : SimulateOtherError(e) /\ UNCHANGED <<io_vars, req_vars, script_vars, build_vars, overflow_checks>>
    \/ \E o \in SimOutcomes : FinalSimulate(o) /\ UNCHANGED <<io_vars, req_vars, script_vars, build_vars, overflow_checks>>

Spec == Init /\ [][Next]_vars

\* one list of receipts for each way a reverted simulation is patched: not
\* at all, with a variable output, with a contract, with both
LiveReceiptLists ==
    {<<>>,
     <<[type |-> "Revert", ra |-> FAILED_TRANSFER_TO_ADDRESS_SIGNAL]>>,
     <<[type |-> "Panic", reason |-> ContractNotInInputs, contract_id |-> 1]>>,
     <<[type |-> "Revert", ra |-> FAILED_TRANSFER_TO_ADDRESS_SIGNAL],
       [type |-> "Panic", reason |-> ContractNotInInputs, contract_id |-> 2]>>}

LiveRevertedErrors == [kind : {"Reverted"}, receipts : LiveReceiptLists]

NextLive ==
    \/ EstimateTxDependencies /\ UNCHANGED <<io_vars, req_vars, script_vars, build_vars, overflow_checks>>
    \/ SimulateOk /\ UNCHANGED <<io_vars, req_vars, script_vars, build_vars, overflow_checks>>
    \/ \E e \in LiveRevertedErrors :
           NodeAnswers(e) /\ SimulateReverted(e) /\ UNCHANGED <<io_vars, req_vars, script_vars, build_vars, overflow_checks>>
    \/ \E e \in OtherErrors : SimulateOtherError(e) /\ UNCHANGED <<io_vars, req_vars, script_vars, build_vars, overflow_checks>>
    \/ \E o \in {OkOutcome} \cup LiveRevertedErrors \cup OtherErrors :
           FinalSimulate(o) /\ UNCHANGED <<io_vars, req_vars, script_vars, build_vars, overflow_checks>>

\* every simulation the loop awaits returns: a run that can take a step
\* takes one
SpecLive == Init /\ [][NextLive]_vars /\ WF_vars(NextLive)

----------------------------------------------------------------------------
(* Specification of the input/output resolver *)

InitResolver ==
    InitLoop /\ max_attempts = <<>> /\ InitIO /\ IdleReq /\ IdleScript /\ IdleBuild

NextIO == GetTransactionInputsOutputs /\ UNCHANGED <<loop_vars, req_vars, script_vars, build_vars, overflow_checks>>

SpecIO == InitResolver /\ [][NextIO]_vars

----------------------------------------------------------------------------
(* Specification of the outputs and required amounts of calls with transfers *)

InitTransfers ==
    InitLoop /\ max_attempts = <<>> /\ InitAssets /\ IdleScript /\ IdleBuild

\* calculate_required_asset_amounts and get_transaction_inputs_outputs are
\* each applied once to the calls, in either order; asset_inputs is the
\* argument of get_transaction_inputs_outputs as the caller passes it, and no
\* account is asked for resources (the builder that asks is SpecBuild)
NextAssets ==
    \/ CalculateRequiredAssetAmounts /\ UNCHANGED <<loop_vars, io_vars, script_vars, build_vars, overflow_checks>>
    \/ GetTransactionInputsOutputs /\ UNCHANGED <<loop_vars, req_vars, script_vars, build_vars, overflow_checks>>

SpecAssets == InitTransfers /\ [][NextAssets]_vars

----------------------------------------------------------------------------
(* Specification of the script layout *)

InitLayout ==
    InitLoop /\ max_attempts = <<>> /\ InitScript /\ IdleReq /\ IdleBuild

NextScript ==
    \/ ComputeCallsInstructionsLen /\ UNCHANGED <<loop_vars, io_vars, req_vars, build_vars, overflow_checks>>
    \/ BuildScriptDataFromContractCalls /\ UNCHANGED <<loop_vars, io_vars, req_vars, build_vars, overflow_checks>>
    \/ GetInstructions /\ UNCHANGED <<loop_vars, io_vars, req_vars, build_vars, overflow_checks>>

SpecScript == InitLayout /\ [][NextScript]_vars

----------------------------------------------------------------------------
(* Specification of the assembly of the transaction *)

NextBuild ==
    \/ SizeScript
    \/ LayOutScriptData
    \/ EmitScript
    \/ AggregateAssets
    \/ \E a \in AssetIds : \E o \in SelectionOutcomes(a) : GetAssetInputsForAmount(o)
    \/ ResolveAndAssemble
    \/ \E o \in AccountOutcomes : AddWitnesses(o)
    \/ \E ok \in BOOLEAN : \E coin \in FeeCoins : \E change \in BOOLEAN : AdjustForFee(FeeOutcome(ok, coin, change, base_asset_id, address))
    \/ \E o \in AccountOutcomes : Build(o)

SpecBuild == InitBuild /\ [][NextBuild]_vars

----------------------------------------------------------------------------
(* Specification of the sums of large amounts *)

\* calls whose amounts reach the top of the u64 range
LargeAmountCalls ==
    [contract_id : {1},
     external_contracts : {<<>>},
     variable_outputs : {<<>>},
     custom_assets : {NoCustomAssets,
                      [k \in {<<1, Some("w2")>>} |-> 1],
                      [k \in {<<1, Some("w2")>>} |-> U64_MAX]},
     call_parameters : [amount : {0, 1, U64_MAX},
                        asset_id : {<<>>, Some(2)},
                        gas_forwarded : {<<>>}]]

\* The arguments of one run of the two functions that sum amounts, in a build
\* with or without overflow checks.
InitSum ==
    /\ InitLoop /\ max_attempts = <<>>
    /\ io_pc = "ready"
    /\ calls \in SeqsUpTo(LargeAmountCalls, MaxCalls)
    /\ base_asset_id = 1
    /\ asset_inputs = <<>>
    /\ address = "w1"
    /\ inputs = <<>>
    /\ outputs = <<>>
    /\ IdleReq
    /\ IdleScript
    /\ build_pc = "idle"
    /\ trace = <<>>
    /\ selected = 0
    /\ tb = NoValue
    /\ used_base_amount = NoValue
    /\ tx = NoValue
    /\ overflow_checks \in BOOLEAN

\* the two functions are called on the same calls, in either order
NextSum ==
    \/ CalculateRequiredAssetAmounts /\ UNCHANGED <<loop_vars, io_vars, script_vars, build_vars, overflow_checks>>
    \/ GetTransactionInputsOutputs /\ UNCHANGED <<loop_vars, req_vars, script_vars, build_vars, overflow_checks>>

SpecSum == InitSum /\ [][NextSum]_vars

----------------------------------------------------------------------------
(* Properties of the resolution loop, stated for Spec *)

\* a step in which simulate() has been called
SimulateStep == sim_calls' = sim_calls + 1

\* a step of the loop body (one of the `attempts` in-loop simulations)
InLoopSimulateStep == pc = "loop" /\ iter < attempts /\ SimulateStep

\* number of Revert receipts carrying the failed-transfer-to-address signal
NumFailedTransferReceipts(receipts) ==
    Cardinality({k \in DOMAIN receipts :
                    /\ receipts[k].type = "Revert"
                    /\ receipts[k].ra = "FAILED_TRANSFER_TO_ADDRESS_SIGNAL"})

\* positions of the Panic receipts with reason ContractNotInInputs
MissingContractPositions(receipts) ==
    {k \in DOMAIN receipts :
        receipts[k].type = "Panic" /\ receipts[k].reason = "ContractNotInInputs"}

Recoverable(receipts) ==
    \/ NumFailedTransferReceipts(receipts) > 0
    \/ MissingContractPositions(receipts) # {}

\* the attempt count N of the run: the override, or 10 when none is given
AttemptCount == IF max_attempts = <<>> THEN 10 ELSE max_attempts[1]

\* C1: a simulation that fails with a Reverted error whose receipts hold neither
\* the failed-transfer signal nor a ContractNotInInputs panic ends the loop at
\* once: that error is returned, no patch is applied, no further simulation runs.
C1_UnrecoverableRevertIsFatal ==
    [][(SimulateStep /\ last'.outcome.kind = "Reverted"
            /\ ~Recoverable(last'.outcome.receipts))
        => (pc' = "done" /\ result' = [tag |-> "Err", error |-> last'.outcome]
            /\ self' = self)]_vars

\* C2: a simulation error that is not a Reverted error is returned at once:
\* the caller is not patched and simulate is not called again.
C2_OtherErrorReturnedAtOnce ==
    [][/\ (SimulateStep /\ last'.outcome.kind = "Other")
            => (pc' = "done" /\ result' = [tag |-> "Err", error |-> last'.outcome]
                /\ self' = self)
       /\ last.outcome.kind # "Other"]_vars

C2_Witness ==
    /\ pc = "done"
    /\ result.tag = "Err"
    /\ result.error.kind = "Other"
    /\ sim_calls = 3
    /\ iter < attempts
    /\ self.variable_outputs = 2

\* C3: a run with attempt count N calls simulate at most N + 1 times: at most N
\* times inside the loop and once more after the loop is exhausted.
C3_SimulateCallsBounded ==
    pc # "idle" =>
        /\ sim_calls <= AttemptCount + 1
        /\ (pc = "loop" => sim_calls <= AttemptCount)
        /\ (sim_calls = AttemptCount + 1 => (pc = "done" /\ iter = AttemptCount))

C3_Witness ==
    /\ max_attempts = <<>>
    /\ sim_calls = 11
    /\ pc = "done"

\* C4: when all N in-loop simulations ended in a revert, exactly one further
\* simulation runs, on the caller as patched so far; its outcome is the result,
\* nothing is patched after it, and a returned error is always the error of the
\* latest simulation.
C4_FinalSimulationDecides ==
    /\ (pc = "loop" /\ iter = AttemptCount) => sim_calls = AttemptCount
    /\ (pc = "done" /\ iter = AttemptCount) =>
          /\ sim_calls = AttemptCount + 1
          /\ last.on = self
          /\ result = IF last.outcome.kind = "Ok"
                      THEN [tag |-> "Ok", caller |-> self]
                      ELSE [tag |-> "Err", error |-> last.outcome]
    /\ (pc = "done" /\ result.tag = "Err") =>
          /\ result.error = last.outcome
          /\ last.outcome.kind \in {"Reverted", "Other"}

C4_Witness ==
    /\ pc = "done"
    /\ max_attempts = Some(2)
    /\ iter = 2
    /\ sim_calls = 3
    /\ result.tag = "Err"
    /\ result.error.kind = "Reverted"
    /\ Recoverable(result.error.receipts)
    /\ self.variable_outputs = 2

\* C5: the loop stops at the first successful simulation and returns the caller
\* with the patches applied so far; nothing is simulated or patched afterwards.
C5_StopsAtFirstSuccess ==
    [][/\ (SimulateStep /\ last'.outcome.kind = "Ok")
            => (pc' = "done" /\ result' = [tag |-> "Ok", caller |-> self]
                /\ self' = self /\ last'.on = self)
       /\ last.outcome.kind # "Ok"]_vars

C5_Witness ==
    /\ pc = "done"
    /\ result.tag = "Ok"
    /\ iter = 2
    /\ iter < attempts
    /\ result.caller.variable_outputs = 1
    /\ result.caller.external_contracts = <<2, 1>>

\* C6: an in-loop revert whose receipts hold one or more failed-transfer signals
\* appends exactly one variable output, whatever their number, and the loop
\* goes on to simulate again.
C6_OneVariableOutputPerIteration ==
    [][/\ (InLoopSimulateStep /\ last'.outcome.kind = "Reverted"
              /\ NumFailedTransferReceipts(last'.outcome.receipts) >= 1)
            => (/\ self'.variable_outputs = self.variable_outputs + 1
                /\ pc' = "loop"
                /\ iter' = iter + 1)
       /\ pc = "loop" => SimulateStep]_vars

C6_Witness ==
    /\ pc = "loop"
    /\ last.outcome.kind = "Reverted"
    /\ NumFailedTransferReceipts(last.outcome.receipts) = 2
    /\ self.variable_outputs = last.on.variable_outputs + 1
    /\ self.variable_outputs = 3

\* C7: an in-loop revert whose receipts hold a ContractNotInInputs panic appends
\* the contract id of the first such receipt as an external contract, and does
\* so whether or not the failed-transfer signal is present too (then both
\* patches are applied in the same iteration).
C7_MissingContractAppended ==
    [][(InLoopSimulateStep /\ last'.outcome.kind = "Reverted"
            /\ MissingContractPositions(last'.outcome.receipts) # {})
        => LET receipts == last'.outcome.receipts
               first == CHOOSE k \in MissingContractPositions(receipts) :
                           \A j \in MissingContractPositions(receipts) : k <= j
           IN  /\ self'.external_contracts =
                      Append(self.external_contracts, receipts[first].contract_id)
               /\ self'.variable_outputs = self.variable_outputs +
                      (IF NumFailedTransferReceipts(receipts) >= 1 THEN 1 ELSE 0)]_vars

C7_Witness ==
    /\ pc = "loop"
    /\ last.outcome.kind = "Reverted"
    /\ last.outcome.receipts =
          <<[type |-> "Revert", ra |-> "FAILED_TRANSFER_TO_ADDRESS_SIGNAL"],
            [type |-> "Panic", reason |-> "ContractNotInInputs", contract_id |-> 2]>>
    /\ self.external_contracts = <<1, 2>>
    /\ self.variable_outputs = 1

----------------------------------------------------------------------------
(* Properties of the input/output resolver, stated for SpecIO *)

\* the contract ids some call names as its target or as an external contract
ReferencedContractIds ==
    {c \in CallContractIds :
        \E k \in DOMAIN calls :
            \/ calls[k].contract_id = c
            \/ \E j \in DOMAIN calls[k].external_contracts :
                   calls[k].external_contracts[j] = c}

\* positions of the first NumContracts inputs / of the outputs of a given type
NumContracts == Cardinality(ReferencedContractIds)

OutputPositions(type) == {p \in DOMAIN outputs : outputs[p].type = type}

\* the asset ids carried by the supplied resource inputs (the base asset for a
\* resource without a coin asset id)
CarriedAssetIds ==
    {a \in AssetIds :
        \E k \in DOMAIN asset_inputs :
            /\ asset_inputs[k].type \in {"ResourceSigned", "ResourcePredicate"}
            /\ \/ asset_inputs[k].coin_asset_id = <<a>>
               \/ asset_inputs[k].coin_asset_id = <<>> /\ a = base_asset_id}

\* C8: exactly one contract input and one contract output per distinct contract
\* id named by a call as target or external contract; ids used twice appear
\* once; as many contract inputs as contract outputs.
C8_ContractsDeduplicated ==
    io_pc = "done" =>
        LET generated == {p \in DOMAIN inputs : p <= Len(inputs) - Len(asset_inputs)}
        IN  /\ \A p \in generated : inputs[p].type = "Contract"
            /\ \A c \in ReferencedContractIds :
                  Cardinality({p \in generated : inputs[p].contract_id = c}) = 1
            /\ \A p \in generated : inputs[p].contract_id \in ReferencedContractIds
            /\ Cardinality(generated) = NumContracts
            /\ Cardinality(OutputPositions("Contract")) = NumContracts

C8_Witness ==
    /\ io_pc = "done"
    /\ Len(calls) = 2
    /\ calls[1].contract_id = 1
    /\ calls[1].external_contracts = <<2>>
    /\ calls[2].contract_id = 2
    /\ calls[2].external_contracts = <<1>>
    /\ Len(inputs) = 2 + Len(asset_inputs)
    /\ Cardinality(OutputPositions("Contract")) = 2

\* C9: the k contract outputs are the first k outputs, output i has input index
\* i, and input i is a contract input with UTXO output index i and zeroed
\* roots; the contract inputs come before all asset inputs.
C9_ContractOutputsFirst ==
    io_pc = "done" =>
        LET k == NumContracts
        IN  /\ OutputPositions("Contract") = 1..k
            /\ Len(inputs) = k + Len(asset_inputs)
            /\ \A p \in 1..k :
                  /\ outputs[p].input_index = p - 1
                  /\ inputs[outputs[p].input_index + 1].type = "Contract"
                  /\ inputs[p].utxo_id.output_index = p - 1
                  /\ inputs[p].utxo_id.tx_id = "zeroed"
                  /\ inputs[p].balance_root = "zeroed"
                  /\ inputs[p].state_root = "zeroed"
                  /\ outputs[p].balance_root = "zeroed"
                  /\ outputs[p].state_root = "zeroed"
            /\ \A p \in 1..Len(asset_inputs) : inputs[k + p] = asset_inputs[p]

C9_Witness ==
    /\ io_pc = "done"
    /\ NumContracts = 3
    /\ OutputPositions("Contract") = {1, 2, 3}
    /\ OutputPositions("Change") = {4, 5}
    /\ OutputPositions("Coin") = {6}
    /\ OutputPositions("Variable") = {7, 8}
    /\ Len(outputs) = 8
    /\ Len(inputs) = 5

\* C10: exactly one change output per distinct asset id carried by the supplied
\* resource inputs (base asset for a resource without coin asset id), each with
\* amount 0 and to the refund address; none for any other asset id.
C10_OneChangePerAsset ==
    io_pc = "done" =>
        /\ \A a \in AssetIds :
              Cardinality({p \in OutputPositions("Change") : outputs[p].asset_id = a})
                  = IF a \in CarriedAssetIds THEN 1 ELSE 0
        /\ \A p \in OutputPositions("Change") :
              /\ outputs[p].amount = 0
              /\ outputs[p].to = address
              /\ outputs[p].asset_id \in AssetIds

C10_Witness ==
    /\ io_pc = "done"
    /\ base_asset_id = 2
    /\ address = "w2"
    /\ asset_inputs = <<[type |-> "ResourceSigned", coin_asset_id |-> <<>>],
                        [type |-> "ResourcePredicate", coin_asset_id |-> <<2>>]>>
    /\ Cardinality(OutputPositions("Change")) = 1

----------------------------------------------------------------------------
(* Properties of the outputs and required amounts, stated for SpecAssets *)

RECURSIVE SeqSum(_)
SeqSum(s) == IF s = <<>> THEN 0 ELSE Head(s) + SeqSum(Tail(s))

\* the (asset id, Option<recipient>) keys some call transfers to
AllCustomKeys == UNION {DOMAIN calls[k].custom_assets : k \in DOMAIN calls}

\* the keys that name a recipient
CustomPairs == {key \in AllCustomKeys : key[2] # <<>>}

\* amount all calls together transfer under one key
CustomTotal(key) ==
    SeqSum([k \in DOMAIN calls |->
               IF key \in DOMAIN calls[k].custom_assets
               THEN calls[k].custom_assets[key] ELSE 0])

RECURSIVE CustomTotalOfKeys(_)
CustomTotalOfKeys(keys) ==
    IF keys = {} THEN 0
    ELSE LET key == CHOOSE x \in keys : TRUE
         IN  CustomTotal(key) + CustomTotalOfKeys(keys \ {key})

\* asset a call forwards: its own asset id, the base asset when it has none
CallAssetId(k) == unwrap_or(calls[k].call_parameters.asset_id, base_asset_id)

\* amount the calls forward in asset a
CallAmount(a) ==
    SeqSum([k \in DOMAIN calls |->
               IF CallAssetId(k) = a THEN calls[k].call_parameters.amount ELSE 0])

\* amount the Coin outputs pay out in asset a
CoinTotal(a) ==
    SeqSum([p \in DOMAIN outputs |->
               IF outputs[p].type = "Coin" /\ outputs[p].asset_id = a
               THEN outputs[p].amount ELSE 0])

\* amount the returned list requires of asset a
RequiredAmount(a) ==
    SeqSum([p \in DOMAIN required |->
               IF required[p].asset_id = a THEN required[p].amount ELSE 0])

\* C11: whatever the visiting order of the custom-asset entries, the resolver
\* emits exactly one Coin output per distinct (asset id, recipient) pair that
\* names a recipient, and its amount is the sum over all calls of the amounts
\* under that pair, also when the entries of the pair lie in different calls
\* and are not visited consecutively.
C11_OneCoinOutputPerPair ==
    io_pc = "done" =>
        /\ Cardinality(OutputPositions("Coin")) = Cardinality(CustomPairs)
        /\ \A key \in CustomPairs :
              \E p \in OutputPositions("Coin") :
                  /\ outputs[p].asset_id = key[1]
                  /\ outputs[p].to = key[2][1]
                  /\ outputs[p].amount = CustomTotal(key)

\* C12: a custom transfer without recipient produces no output (every Coin
\* output names a recipient, and the Coin outputs of an asset pay out exactly
\* the transfers that name one), while its amount is part of the total the
\* required amounts report for its asset id.
C12_NoRecipientNoOutput ==
    (io_pc = "done" /\ req_pc = "done") =>
        /\ \A p \in OutputPositions("Coin") : outputs[p].to \in Addresses
        /\ \A a \in AssetIds :
              /\ CoinTotal(a) = CustomTotalOfKeys({key \in CustomPairs : key[1] = a})
              /\ RequiredAmount(a) =
                    CoinTotal(a) + CallAmount(a) + CustomTotal(<<a, <<>>>>)

C12_Witness ==
    /\ io_pc = "done"
    /\ req_pc = "done"
    /\ Len(calls) = 2
    /\ calls[1].custom_assets = [k \in {<<1, <<>>>>, <<1, Some("w1")>>} |-> 1]
    /\ calls[2].custom_assets = [k \in {<<1, <<>>>>} |-> 2]
    /\ Cardinality(OutputPositions("Coin")) = 1
    /\ CoinTotal(1) = 1
    /\ required = <<[asset_id |-> 1, amount |-> 4]>>

\* number of variable outputs the calls before call k declare
DeclaredBefore(k) ==
    SeqSum([j \in 1..(k - 1) |-> Len(calls[j].variable_outputs)])

\* C13: the outputs end with the pre-declared variable outputs of all calls, in
\* call order and in each call's own order, after every contract, change and
\* custom output; none is dropped, merged or duplicated.
C13_VariableOutputsLast ==
    io_pc = "done" =>
        LET declared == DeclaredBefore(Len(calls) + 1)
            others == Len(outputs) - declared
        IN  /\ others >= 0
            /\ \A p \in 1..others : outputs[p].type # "Variable"
            /\ \A k \in DOMAIN calls :
                  \A j \in DOMAIN calls[k].variable_outputs :
                      outputs[others + DeclaredBefore(k) + j]
                          = calls[k].variable_outputs[j]

C13_Witness ==
    /\ io_pc = "done"
    /\ Len(calls) = 2
    /\ calls[1].variable_outputs = <<VariableOutput(2), VariableOutput(1)>>
    /\ calls[2].variable_outputs = <<VariableOutput(2)>>
    /\ OutputPositions("Contract") = {1}
    /\ OutputPositions("Change") = {2}
    /\ OutputPositions("Coin") = {3}
    /\ OutputPositions("Variable") = {4, 5, 6}

\* the asset ids a call forwards or a custom transfer names
OccurringAssetIds ==
    {CallAssetId(k) : k \in DOMAIN calls} \cup {key[1] : key \in AllCustomKeys}

\* C14: calculate_required_asset_amounts returns exactly the asset ids that
\* occur as the asset of a call (the base asset when the call has none) or of
\* a custom transfer; the amount of each is the sum of the amounts of the calls
\* in that asset plus the sum of all custom amounts in that asset; a call with
\* amount 0 still yields an entry.
C14_RequiredAmountsAreTotals ==
    req_pc = "done" =>
        /\ {required[p].asset_id : p \in DOMAIN required} = OccurringAssetIds
        /\ \A p \in DOMAIN required :
              required[p].amount =
                  CallAmount(required[p].asset_id)
                  + CustomTotalOfKeys({key \in AllCustomKeys :
                                          key[1] = required[p].asset_id})

C14_Witness ==
    /\ req_pc = "done"
    /\ base_asset_id = 1
    /\ Len(calls) = 2
    /\ calls[1].call_parameters = [amount |-> 0, asset_id |-> Some(2),
                                   gas_forwarded |-> <<>>]
    /\ calls[1].custom_assets = NoCustomAssets
    /\ calls[2].call_parameters = [amount |-> 2, asset_id |-> <<>>,
                                   gas_forwarded |-> <<>>]
    /\ calls[2].custom_assets = OneCustomAsset
    /\ required = <<[asset_id |-> 1, amount |-> 4], [asset_id |-> 2, amount |-> 0]>>

\* the asset ids that occur, in ascending order
AscendingAssetIds ==
    CHOOSE ids \in [1..Cardinality(OccurringAssetIds) -> OccurringAssetIds] :
        \A p, q \in DOMAIN ids : p < q => ids[p] < ids[q]

\* C15: the returned list is in strictly ascending order of asset id, so no
\* asset id occurs twice, and it does not depend on the order of the calls or
\* on the visiting order of their custom-asset entries: it is the list of the
\* occurring asset ids in ascending order, each with the total over the calls
\* and custom transfers, whichever order the run has taken.
C15_RequiredAmountsSorted ==
    req_pc = "done" =>
        /\ \A p, q \in DOMAIN required :
              p < q => required[p].asset_id < required[q].asset_id
        /\ required =
              [p \in DOMAIN AscendingAssetIds |->
                  [asset_id |-> AscendingAssetIds[p],
                   amount |-> CallAmount(AscendingAssetIds[p])
                              + CustomTotalOfKeys({key \in AllCustomKeys :
                                                      key[1] = AscendingAssetIds[p]})]]

C15_Witness ==
    /\ req_pc = "done"
    /\ base_asset_id = 2
    /\ Len(calls) = 2
    /\ calls[1].call_parameters = [amount |-> 1, asset_id |-> <<>>,
                                   gas_forwarded |-> <<>>]
    /\ calls[1].custom_assets = OneCustomAsset
    /\ calls[2].call_parameters = [amount |-> 2, asset_id |-> Some(1),
                                   gas_forwarded |-> <<>>]
    /\ calls[2].custom_assets = OneCustomAsset
    /\ required = <<[asset_id |-> 1, amount |-> 6], [asset_id |-> 2, amount |-> 1]>>

----------------------------------------------------------------------------
(* Properties of the script layout, stated for SpecScript *)

\* the layout has succeeded
Laid == script_pc \in {"laid", "done"}

\* length of the resolved bytes of an argument buffer
ResolvedLen(ub) ==
    SeqSum([i \in DOMAIN ub |-> IF ub[i].kind = "pointer" THEN 8 ELSE 1])

\* the call forwards gas
ForwardsGas(k) == calls[k].call_parameters.gas_forwarded # <<>>

\* length of the segment of call k: the five fixed fields, the selector, the
\* resolved arguments and the optional gas word
SegmentLen(k) ==
    88 + Len(calls[k].encoded_selector) + ResolvedLen(calls[k].encoded_args.value)
       + (IF ForwardsGas(k) THEN 8 ELSE 0)

\* absolute offset at which the segment of call k starts when the segments
\* follow each other from the base offset
SegmentStart(k) == data_offset + SeqSum([j \in 1..(k - 1) |-> SegmentLen(j)])

\* the len bytes of the buffer at the absolute offset
BufferAt(offset, len) ==
    SubSeq(layout.value.script_data, offset - data_offset + 1,
           offset - data_offset + len)

\* u64::from_be_bytes
RECURSIVE FromBeBytes(_)
FromBeBytes(bytes) ==
    IF bytes = <<>> THEN 0
    ELSE FromBeBytes(SubSeq(bytes, 1, Len(bytes) - 1)) * 256 + bytes[Len(bytes)]

\* C16: the calls are laid out contiguously: the segment of call i has length
\* 88 + len(selector) + len(resolved arguments) + 8 if gas is forwarded, the
\* first segment starts at the base offset, every further one where the
\* previous one ends, and the buffer is as long as all segments together.
C16_SegmentsContiguous ==
    Laid =>
        /\ Len(layout.value.param_offsets) = Len(calls)
        /\ Len(layout.value.script_data) = SeqSum([k \in DOMAIN calls |-> SegmentLen(k)])
        /\ \A k \in DOMAIN calls :
              /\ layout.value.param_offsets[k].amount_offset = SegmentStart(k)
              /\ BufferAt(SegmentStart(k), 8)
                    = to_be_bytes(calls[k].call_parameters.amount)
              /\ BufferAt(SegmentStart(k) + 40, 32)
                    = ContractIdHash(calls[k].contract_id)

C16_Witness ==
    /\ Laid
    /\ data_offset = 10368
    /\ Len(calls) = 2
    /\ calls[1].encoded_selector = <<5, 4>>
    /\ calls[1].encoded_args = Ok(<<Pointer(8), DataByte(6)>>)
    /\ ForwardsGas(1)
    /\ calls[2].encoded_args = Ok(<<DataByte(9), DataByte(8), DataByte(7)>>)
    /\ ~ForwardsGas(2)
    /\ layout.value.param_offsets[2].amount_offset = 10368 + 107
    /\ Len(layout.value.script_data) = 107 + 99

\* C17: every offset of a call's CallOpcodeParamsOffset is absolute and lies
\* inside the buffer: amount_offset is the start of the segment, asset_id_offset
\* is 8 and call_data_offset 40 bytes after it (the contract id field), and
\* gas_forwarded_offset is present exactly when the call forwards gas and is
\* then the position of the 8-byte gas word right after the argument bytes.
C17_OffsetsInsideBuffer ==
    Laid =>
        \A k \in DOMAIN calls :
            LET offsets == layout.value.param_offsets[k]
                inside(offset) ==
                    /\ data_offset <= offset
                    /\ offset < data_offset + Len(layout.value.script_data)
                args_end == SegmentStart(k) + 88 + Len(calls[k].encoded_selector)
                            + ResolvedLen(calls[k].encoded_args.value)
            IN  /\ offsets.amount_offset = SegmentStart(k)
                /\ offsets.asset_id_offset = SegmentStart(k) + 8
                /\ offsets.call_data_offset = SegmentStart(k) + 40
                /\ inside(offsets.amount_offset)
                /\ inside(offsets.asset_id_offset)
                /\ inside(offsets.call_data_offset)
                /\ BufferAt(offsets.asset_id_offset, 32)
                      = AssetIdBytes(CallAssetId(k))
                /\ BufferAt(offsets.call_data_offset, 32)
                      = ContractIdHash(calls[k].contract_id)
                /\ (offsets.gas_forwarded_offset # <<>>) <=> ForwardsGas(k)
                /\ ForwardsGas(k) =>
                      /\ offsets.gas_forwarded_offset = Some(args_end)
                      /\ inside(args_end)
                      /\ BufferAt(args_end, 8)
                            = to_be_bytes(calls[k].call_parameters.gas_forwarded[1])

C17_Witness ==
    /\ Laid
    /\ data_offset = 10368
    /\ Len(calls) = 2
    /\ calls[1].encoded_args = Ok(<<DataByte(9), DataByte(8), DataByte(7)>>)
    /\ ~ForwardsGas(1)
    /\ calls[2].encoded_selector = <<5, 4>>
    /\ calls[2].encoded_args = Ok(<<Pointer(8), DataByte(6)>>)
    /\ layout.value.param_offsets[2] =
          [call_data_offset |-> 10368 + 99 + 40,
           amount_offset |-> 10368 + 99,
           asset_id_offset |-> 10368 + 99 + 8,
           gas_forwarded_offset |-> Some(10368 + 99 + 99)]

\* C18: in the segment of every call of the list, the selector-offset field
\* holds the absolute offset at which the selector bytes of that call lie in
\* the buffer, the arguments-offset field holds the absolute offset at which
\* its argument bytes lie, and the arguments have been resolved at that same
\* offset.
C18_OffsetFieldsPointAtData ==
    Laid =>
        \A k \in DOMAIN calls :
            LET selector_offset == FromBeBytes(BufferAt(SegmentStart(k) + 72, 8))
                args_offset == FromBeBytes(BufferAt(SegmentStart(k) + 80, 8))
                args == calls[k].encoded_args.value
            IN  /\ selector_offset = SegmentStart(k) + 88
                /\ BufferAt(selector_offset, Len(calls[k].encoded_selector))
                      = calls[k].encoded_selector
                /\ args_offset = selector_offset + Len(calls[k].encoded_selector)
                /\ BufferAt(args_offset, ResolvedLen(args)) = resolve(args, args_offset)

C18_Witness ==
    /\ Laid
    /\ data_offset = 10368
    /\ Len(calls) = 2
    /\ ForwardsGas(1)
    /\ calls[1].encoded_args = Ok(<<DataByte(9), DataByte(8), DataByte(7)>>)
    /\ calls[2].encoded_selector = <<5, 4>>
    /\ calls[2].encoded_args = Ok(<<Pointer(8), DataByte(6)>>)
    /\ BufferAt(10368 + 107 + 72, 8) = to_be_bytes(10368 + 107 + 88)
    /\ BufferAt(10368 + 107 + 80, 8) = to_be_bytes(10368 + 107 + 90)
    /\ BufferAt(10368 + 107 + 90, 9) = to_be_bytes(10368 + 107 + 98) \o <<6>>

\* number of instructions that call k takes
CallInstructionCount(k) == IF ForwardsGas(k) THEN 7 ELSE 5

\* number of instructions of the calls before call k
InstructionsBefore(k) == SeqSum([j \in 1..(k - 1) |-> CallInstructionCount(j)])

\* the i-th 4-byte instruction of the script
InstructionAt(i) == SubSeq(script.value, 4 * (i - 1) + 1, 4 * i)

\* C19: the length compute_calls_instructions_len computes from the gas
\* forwarding of the calls alone (5 instructions for a call without, 7 for a
\* call with forwarded gas, 4 bytes each, whatever the output type) is the
\* byte length of the per-call instructions get_instructions emits for the
\* real offsets, so the script is that length plus one 4-byte instruction.
C19_InstructionsLenMatchesScript ==
    /\ script_pc # "ready" =>
          calls_instructions_len =
              Ok(4 * SeqSum([k \in DOMAIN calls |-> CallInstructionCount(k)]))
    /\ script_pc = "done" =>
          /\ script.tag = "Ok"
          /\ Len(script.value) = calls_instructions_len.value + 4

C19_Witness ==
    /\ script_pc = "done"
    /\ Len(calls) = 2
    /\ calls[1].output_param = "Vector"
    /\ calls[1].call_parameters.gas_forwarded = Some(0)
    /\ calls[2].output_param = "Unit"
    /\ ~ForwardsGas(2)
    /\ calls_instructions_len = Ok(48)
    /\ Len(script.value) = 52

\* C20: the script is the concatenation, in call order, of the instruction
\* sequences of the calls, followed by exactly one RET(ONE) as the last
\* instruction; no return lies between the calls, and for an empty call list
\* the script is the single return instruction.
C20_ScriptEndsWithOneReturn ==
    script_pc = "done" =>
        LET count == InstructionsBefore(Len(calls) + 1)
        IN  /\ script.tag = "Ok"
            /\ Len(script.value) = 4 * (count + 1)
            /\ \A k \in DOMAIN calls :
                  SubSeq(script.value, 4 * InstructionsBefore(k) + 1,
                         4 * InstructionsBefore(k + 1))
                      = get_single_call_instructions(layout.value.param_offsets[k],
                                                     calls[k].output_param).value
            /\ InstructionAt(count + 1) = <<36, 4, 0, 0>>
            /\ \A i \in 1..count : InstructionAt(i)[1] # 36

C20_Witness ==
    /\ script_pc = "done"
    /\ data_offset = 10368
    /\ Len(calls) = 2
    /\ ForwardsGas(1)
    /\ ~ForwardsGas(2)
    /\ Len(script.value) = 52
    /\ InstructionAt(7) = <<45, 65, 20, 147>>
    /\ InstructionAt(12) = <<45, 65, 20, 138>>
    /\ InstructionAt(13) = <<36, 4, 0, 0>>

----------------------------------------------------------------------------
(* Properties of the assembly of the transaction, stated for SpecBuild *)

\* the positions of the trace at which the named step was taken
StepsOf(name) == {i \in DOMAIN trace : trace[i].step = name}

\* some call's arguments could not be encoded
HasEncodingError == \E k \in DOMAIN calls : calls[k].encoded_args.tag = "Err"

\* the script-data layout has been attempted
LayoutAttempted == StepsOf("build_script_data_from_contract_calls") # {}

\* C21: when the encoded arguments of some call are an error, the layout
\* returns a Codec error and neither a buffer nor offsets, and the builder
\* function returns that same error and no builder; the layout was attempted
\* once, and no step and no request to the account follows it.
C21_EncodingErrorIsFatal ==
    (HasEncodingError /\ LayoutAttempted) =>
        /\ layout.tag = "Err"
        /\ layout.error.kind = "Codec"
        /\ DOMAIN layout = {"tag", "error"}
        /\ tb = layout
        /\ tx = layout
        /\ build_pc = "done"
        /\ script = NoValue
        /\ trace = <<Step("compute_calls_instructions_len"),
                     Step("build_script_data_from_contract_calls")>>

C21_Witness ==
    /\ Len(calls) = 2
    /\ calls[1].encoded_args.tag = "Ok"
    /\ calls[2].encoded_args.tag = "Err"
    /\ LayoutAttempted
    /\ tb.tag = "Err"
    /\ build_pc = "done"

\* the place of a step in an order of the six steps of the builder function
RankIn(order, name) ==
    IF \E i \in DOMAIN order : order[i] = name
    THEN CHOOSE i \in DOMAIN order : order[i] = name
    ELSE 0

\* the steps named by `order` were taken in that order
TakenInOrder(order) ==
    \A i, j \in DOMAIN trace :
        (i < j /\ RankIn(order, trace[i].step) > 0 /\ RankIn(order, trace[j].step) > 0)
            => RankIn(order, trace[i].step) <= RankIn(order, trace[j].step)

\* C22: the builder function takes its steps in the order asset
\* aggregation, resource selection, script-data layout, opcode generation,
\* input/output resolution; in particular no layout is attempted before the
\* resource-selection requests are made.
C22_SelectionBeforeLayout ==
    TakenInOrder(<<"calculate_required_asset_amounts",
                   "get_asset_inputs_for_amount",
                   "build_script_data_from_contract_calls",
                   "get_instructions",
                   "get_transaction_inputs_outputs">>)

\* the resource-selection requests made so far, in the order they were made
RequestsMade == SelectSeq(trace, LAMBDA e : e.step = "get_asset_inputs_for_amount")

\* the resources the requests returned, in request order
RECURSIVE ResourcesOf(_)
ResourcesOf(requests) ==
    IF requests = <<>> THEN <<>>
    ELSE (IF Head(requests).outcome.tag = "Ok" THEN Head(requests).outcome.value
          ELSE <<>>) \o ResourcesOf(Tail(requests))

\* the total the calls require of asset a
TotalRequired(a) ==
    CallAmount(a) + CustomTotalOfKeys({key \in AllCustomKeys : key[1] = a})

FeeAmounts == {trace[i].amount : i \in StepsOf("adjust_for_fee")}

\* C24: build_tx_from_contract_calls attaches the witnesses, then asks the
\* account to adjust for the fee, then finalizes, in this order and each once,
\* a later step only after the earlier one succeeded; the base-asset amount
\* passed to the fee adjustment is the total the required amounts report for
\* the base asset id, and 0 when the base asset is not among them.
C24_WitnessesFeeBuild ==
    /\ TakenInOrder(<<"get_transaction_inputs_outputs", "add_witnesses",
                      "adjust_for_fee", "build">>)
    /\ \A name \in {"add_witnesses", "adjust_for_fee", "build"} :
          /\ Cardinality(StepsOf(name)) <= 1
          /\ StepsOf(name) # {} => tb.tag = "Ok"
    /\ StepsOf("adjust_for_fee") # {} =>
          /\ StepsOf("add_witnesses") # {}
          /\ tb.value.witnesses = 1
    /\ StepsOf("build") # {} =>
          /\ StepsOf("adjust_for_fee") # {}
          /\ tb.value.fee_adjusted_for # <<>>
    /\ \A amount \in FeeAmounts :
          /\ amount = RequiredAmount(base_asset_id)
          /\ amount = IF base_asset_id \in OccurringAssetIds
                      THEN TotalRequired(base_asset_id) ELSE 0
    /\ tx.tag = "Ok" =>
          /\ StepsOf("build") # {}
          /\ tx.value.witnesses = 1
          /\ {tx.value.fee_adjusted_for[1]} = FeeAmounts

C24_Witness ==
    /\ tx.tag = "Ok"
    /\ base_asset_id = 2
    /\ required = <<[asset_id |-> 1, amount |-> 2], [asset_id |-> 2, amount |-> 7]>>
    /\ tx.value.fee_adjusted_for = <<7>>
    /\ SubSeq(trace, Len(trace) - 2, Len(trace))
           = <<Step("add_witnesses"), [step |-> "adjust_for_fee", amount |-> 7],
               Step("build")>>

----------------------------------------------------------------------------
(* Order of the resolver's result, stated for SpecIO *)

\* the elements of a set of ids in ascending order
Ascending(S) == CHOOSE s \in Orders(S) : \A p, q \in DOMAIN s : p < q => s[p] < s[q]

\* the result of the run that visits both hash sets in ascending key order
SortedRun ==
    get_transaction_inputs_outputs(
        calls, asset_inputs, address, base_asset_id,
        [contract_ids |-> Ascending(extract_unique_contract_ids(calls)),
         asset_ids |-> Ascending(extract_unique_asset_ids(asset_inputs, base_asset_id)),
         custom_assets |-> CHOOSE entries \in CustomEntryLists(calls) : TRUE])

ChangePositionsOf(outs) == {p \in DOMAIN outs : outs[p].type = "Change"}

VariableOutputsOf(outs) == SelectSeq(outs, LAMBDA o : o.type = "Variable")

\* C25 as stated: the contract inputs and the change outputs are emitted in
\* sorted key order, so that two runs on the same arguments return identical
\* sequences.
C25_SortedKeyOrder ==
    io_pc = "done" =>
        /\ \A p, q \in 1..NumContracts :
              p < q => inputs[p].contract_id < inputs[q].contract_id
        /\ \A p, q \in OutputPositions("Change") :
              p < q => outputs[p].asset_id < outputs[q].asset_id

\* C25, amended: two runs on the same arguments return the same contract
\* inputs and the same change outputs up to their order, which is the
\* iteration order of a hash set and neither sorted nor repeatable: every run
\* returns as many inputs as the run in ascending key order, contract inputs
\* for the same set of contract ids with the same indexes and roots, the same
\* asset inputs after them, the same contract outputs, the same set of change
\* outputs at the same positions, and the same variable outputs in the same
\* order.
C25_SameUpToOrder ==
    io_pc = "done" =>
        LET k == NumContracts
            sorted == SortedRun
        IN  /\ Len(inputs) = Len(sorted.inputs)
            /\ {inputs[p].contract_id : p \in 1..k}
                   = {sorted.inputs[p].contract_id : p \in 1..k}
            /\ \A p \in 1..k :
                  [inputs[p] EXCEPT !.contract_id = 0]
                      = [sorted.inputs[p] EXCEPT !.contract_id = 0]
            /\ SubSeq(inputs, k + 1, Len(inputs))
                   = SubSeq(sorted.inputs, k + 1, Len(inputs))
            /\ SubSeq(outputs, 1, k) = SubSeq(sorted.outputs, 1, k)
            /\ ChangePositionsOf(outputs) = ChangePositionsOf(sorted.outputs)
            /\ {outputs[p] : p \in ChangePositionsOf(outputs)}
                   = {sorted.outputs[p] : p \in ChangePositionsOf(outputs)}
            /\ VariableOutputsOf(outputs) = VariableOutputsOf(sorted.outputs)

C25_Witness ==
    /\ io_pc = "done"
    /\ NumContracts = 3
    /\ inputs[1].contract_id > inputs[2].contract_id
    /\ inputs[2].contract_id < inputs[3].contract_id
    /\ OutputPositions("Change") = {4, 5}
    /\ outputs[4].asset_id > outputs[5].asset_id
    /\ OutputPositions("Variable") # {}

----------------------------------------------------------------------------
(* The instructions of one call, stated for SpecScript *)

\* the i-th instruction of the script, decoded from its four bytes: the
\* opcode byte, the 6-bit register fields and the 18-bit / 12-bit immediates
DecodedAt(i) ==
    LET bytes == InstructionAt(i)
        operands == bytes[2] * 65536 + bytes[3] * 256 + bytes[4]
    IN  [op |-> bytes[1],
         ra |-> operands \div 262144,
         rb |-> (operands \div 4096) % 64,
         rc |-> (operands \div 64) % 64,
         rd |-> operands % 64,
         imm18 |-> operands % 262144,
         imm12 |-> operands % 4096]

IsMovi(i, reg, value) ==
    LET ins == DecodedAt(i) IN ins.op = 114 /\ ins.ra = reg /\ ins.imm18 = value

IsLoadWord(i, reg) ==
    LET ins == DecodedAt(i)
    IN  ins.op = 93 /\ ins.ra = reg /\ ins.rb = reg /\ ins.imm12 = 0

IsCall(i, gas_reg) ==
    LET ins == DecodedAt(i)
    IN  ins.op = 45 /\ ins.ra = 16 /\ ins.rb = 17 /\ ins.rc = 18 /\ ins.rd = gas_reg

\* C26: the instructions of each call are exactly: move the call-data
\* offset into 0x10; move the amount offset into 0x11 and load the word there
\* into 0x11; move the asset-id offset into 0x12; then, when the call has a
\* gas offset, move it into 0x13, load the word there into 0x13 and
\* CALL 0x10, 0x11, 0x12, 0x13, otherwise CALL 0x10, 0x11, 0x12, CGAS.  Every
\* register written lies in 0x10..0x13, and the instructions are the same for
\* every output type.
C26_CallInstructionSequence ==
    script_pc = "done" =>
        \A k \in DOMAIN calls :
            LET first == InstructionsBefore(k)
                offsets == layout.value.param_offsets[k]
                count == InstructionsBefore(k + 1) - first
            IN  /\ IsMovi(first + 1, 16, offsets.call_data_offset)
                /\ IsMovi(first + 2, 17, offsets.amount_offset)
                /\ IsLoadWord(first + 3, 17)
                /\ IsMovi(first + 4, 18, offsets.asset_id_offset)
                /\ IF ForwardsGas(k)
                   THEN /\ count = 7
                        /\ IsMovi(first + 5, 19, offsets.gas_forwarded_offset[1])
                        /\ IsLoadWord(first + 6, 19)
                        /\ IsCall(first + 7, 19)
                   ELSE /\ count = 5
                        /\ offsets.gas_forwarded_offset = <<>>
                        /\ IsCall(first + 5, 10)
                /\ \A i \in (first + 1)..(first + count) :
                      DecodedAt(i).op \in {114, 93} => DecodedAt(i).ra \in 16..19
                /\ \A type \in {"Unit", "Vector"} :
                      get_single_call_instructions(offsets, type)
                          = get_single_call_instructions(offsets, calls[k].output_param)
            /\ Len(script.value) = 4 * (InstructionsBefore(Len(calls) + 1) + 1)

C26_Witness ==
    /\ script_pc = "done"
    /\ data_offset = 10368
    /\ Len(calls) = 2
    /\ ~ForwardsGas(1)
    /\ calls[1].output_param = "Vector"
    /\ ForwardsGas(2)
    /\ calls[2].output_param = "Unit"
    /\ IsCall(5, 10)
    /\ IsLoadWord(11, 19)
    /\ IsCall(12, 19)

----------------------------------------------------------------------------
(* Termination and patches of the resolution loop, stated for SpecLive and Spec *)

\* C27: when every simulation returns, estimate_tx_dependencies terminates
\* with the caller or with an error, whatever the attempt count and whatever
\* the simulations answer, also when every in-loop simulation reverts and is
\* patched: it never simulates more often than the attempt count plus one,
\* and it eventually returns.
C27_Terminates ==
    /\ [](pc # "idle" => sim_calls <= attempts + 1)
    /\ <>(pc = "done" /\ result.tag \in {"Ok", "Err"})

C27_Witness ==
    /\ pc = "done"
    /\ max_attempts = <<2>>
    /\ sim_calls = 3
    /\ patched = 2
    /\ last.outcome.kind = "Reverted"
    /\ Recoverable(last.outcome.receipts)
    /\ result.tag = "Err"

\* s is a prefix of t
IsPrefix(s, t) == Len(s) <= Len(t) /\ SubSeq(t, 1, Len(s)) = s

\* C28: a patch only grows the caller and is bounded per iteration: a
\* reverted in-loop simulation adds at most one variable output and at most
\* one external contract, and no step removes any; every simulation runs on
\* the caller that holds all earlier patches; a run with attempt count N has
\* appended at most N variable outputs and at most N external contracts.
C28_PatchesGrowBounded ==
    /\ [][/\ self'.variable_outputs >= self.variable_outputs
          /\ IsPrefix(self.external_contracts, self'.external_contracts)
          /\ self'.variable_outputs <= self.variable_outputs + 1
          /\ Len(self'.external_contracts) <= Len(self.external_contracts) + 1
          /\ self' # self => (InLoopSimulateStep /\ last'.outcome.kind = "Reverted")
          /\ SimulateStep => last'.on = self]_vars
    /\ [](/\ self.variable_outputs <= iter
          /\ Len(self.external_contracts) <= iter
          /\ iter <= attempts
          /\ pc # "idle" => attempts = AttemptCount)

C28_Witness ==
    /\ pc = "done"
    /\ max_attempts = <<2>>
    /\ sim_calls = 3
    /\ self.variable_outputs = 2
    /\ Len(self.external_contracts) = 2
    /\ last.on = self

\* C29: with an attempt count of 0 the loop body never runs: exactly one
\* simulation is made, on the caller as given, no patch is applied whatever
\* its receipts hold, and its outcome is the result (a recoverable revert is
\* returned as the error, the caller being left unpatched).
C29_ZeroAttempts ==
    max_attempts = <<0>> =>
        /\ self = NewCaller
        /\ sim_calls <= 1
        /\ pc = "done" =>
              /\ sim_calls = 1
              /\ last.on = NewCaller
              /\ result = IF last.outcome.kind = "Ok" THEN ResultOk(NewCaller)
                          ELSE ResultErr(last.outcome)

C29_Witness ==
    /\ max_attempts = <<0>>
    /\ pc = "done"
    /\ last.outcome.kind = "Reverted"
    /\ NumFailedTransferReceipts(last.outcome.receipts) > 0
    /\ MissingContractPositions(last.outcome.receipts) # {}
    /\ result = ResultErr(last.outcome)
    /\ self = NewCaller

----------------------------------------------------------------------------
(* Sums of large amounts, stated for SpecSum *)

\* the custom transfers (call, key) of asset a
CustomContributions(a) ==
    {c \in (DOMAIN calls) \X AllCustomKeys :
        c[2] \in DOMAIN calls[c[1]].custom_assets /\ c[2][1] = a}

\* A u64 total is the arithmetic sum of u64 contributions when it is their
\* sum as model integers and no multiple of 2^64 got lost: with x < 0
\* standing for 2^64 + x, contributions of which n are negative add up to
\* their integer sum + n * 2^64, and the total stands for itself + 2^64 when
\* it is negative.
NoWordLost(total, negatives) == negatives = IF total < 0 THEN 1 ELSE 0

IsExactTotal(total, a) ==
    /\ total = TotalRequired(a)
    /\ NoWordLost(total,
           Cardinality({k \in DOMAIN calls :
                           CallAssetId(k) = a /\ calls[k].call_parameters.amount < 0})
           + Cardinality({c \in CustomContributions(a) :
                             calls[c[1]].custom_assets[c[2]] < 0}))

IsExactPairTotal(total, key) ==
    /\ total = CustomTotal(key)
    /\ NoWordLost(total,
           Cardinality({k \in DOMAIN calls :
                           /\ key \in DOMAIN calls[k].custom_assets
                           /\ calls[k].custom_assets[key] < 0}))

\* C30: for every call list with u64 amounts, each per-asset total of
\* calculate_required_asset_amounts and each per-pair total of
\* generate_custom_outputs is the exact arithmetic sum of the contributing
\* amounts: no sum wraps modulo 2^64 and none aborts, also when the
\* contributions of an asset add up to 2^64 or more.
C30_TotalsAreExact ==
    /\ req_pc # "panicked"
    /\ io_pc # "panicked"
    /\ req_pc = "done" =>
          \A p \in DOMAIN required :
              IsExactTotal(required[p].amount, required[p].asset_id)
    /\ io_pc = "done" =>
          \A p \in OutputPositions("Coin") :
              IsExactPairTotal(outputs[p].amount, <<outputs[p].asset_id, Some(outputs[p].to)>>)

====
